---- MODULE Spec2Model ----
(***************************************************************************)
(* Model of the detection pipeline of restart-vision-ml:                   *)
(*   - the refinement engine  (analysis-refine.ts, src/unnamed/part_002)   *)
(*   - per-class suppression and coordinate remapping                      *)
(*     (src/src/detectors/yolo-v8-onnx.detector.ts)                        *)
(*                                                                         *)
(* Numbers.  Tolerances and the scores of the input pools are written as   *)
(* decimals of three places, in thousandths (0.55 is 550).  A stored score *)
(* or confidence (detection.score, summary.confidence) is an IEEE-754      *)
(* double: Num(550) is the double of 0.55, and what the code computes and  *)
(* stores is the double it computes (operators Num...), so 0.55 + 0.05 is  *)
(* stored as 0.6000000000000001 and 0.10 + 0.05 exceeds 0.15 here as it    *)
(* does there.  Pixel coordinates are integers.  A quotient of two integers*)
(* that is only compared with a decimal (IoU, coverage) is kept as a pair  *)
(* <<numerator, denominator>> and compared by cross-multiplication: the    *)
(* rounding of a quotient is monotone, so the double comparison gives the  *)
(* same answer.  A quotient with denominator 0 follows the IEEE-754 rules  *)
(* of the code: x/0 is +Infinity for x > 0 and NaN for x = 0, and every    *)
(* comparison with NaN is false.                                           *)
(*                                                                         *)
(* Trace notes.  The arrow of the code's note templates is written "->",   *)
(* and the interpolated percentages of a note are left out.                *)
(***************************************************************************)
EXTENDS Integers, Sequences, FiniteSets, TLC

VARIABLES
    phase,      \* which call has been made: "init", "refined", "nms", "nms2",
                \* "remapped", "roundtrip"
    input,      \* the DocumentAnalysisResult the caller holds (the argument object graph)
    options,    \* the RefineOptions of the call
    output,     \* the DocumentAnalysisResult returned by refineDocumentAnalysis
    notes,      \* the local trace-note list of the call, at return
    before,     \* the caller's structural snapshot of the input, taken before the call
    nmsIn,      \* candidate list handed to applyNMS (as handed in, and the array
                \* objects as the calls leave them), and the IoU threshold
    nmsOut,     \* result of applyNMS
    nmsOut2,    \* result of applyNMS applied to its own output
    geo,        \* letterbox geometry and the box / candidate of a remap call
    remapped,   \* the Detection box produced by the remapper
    again,      \* what a repeated refineDocumentAnalysis call returned, its notes, and
                \* the number of calls made under other options before it
    decode,     \* an inference result, the output tensor picked from it and what
                \* decoding it gave
    mainPick,   \* what pickMainType returned for the input, and its notes
    analyzer,   \* one DocumentAnalyzer with its detector: the position of every
                \* analyze call, the detector's session and what was done to it
    moduleTol   \* the module-level DEFAULT_TOL object of the refinement engine, as
                \* the calls made so far have left it

vars == <<phase, input, options, output, notes, before, nmsIn, nmsOut, nmsOut2, geo, remapped,
          again, decode, mainPick, analyzer, moduleTol>>

----------------------------------------------------------------------------
(* Generic helpers *)

Max(a, b) == IF a >= b THEN a ELSE b
Min(a, b) == IF a <= b THEN a ELSE b
Abs(a) == IF a >= 0 THEN a ELSE -a

\* Floor of p/q for q > 0 (TLA+ \div rounds toward minus infinity).
FloorDiv(p, q) == p \div q

\* Quotients <<n, d>> with d > 0.
QGt(a, b) == a[1] * b[2] > b[1] * a[2]
QGe(a, b) == a[1] * b[2] >= b[1] * a[2]
QLt(a, b) == QGt(b, a)

RECURSIVE InsertDesc(_, _)
InsertDesc(x, s) ==
    IF s = <<>> THEN <<x>>
    ELSE IF QGt(x.k, Head(s).k) THEN <<x>> \o s
    ELSE <<Head(s)>> \o InsertDesc(x, Tail(s))

\* Array.prototype.sort((a, b) => key(b) - key(a)): stable, descending.
\* Elements are records [k |-> <<n, d>>, v |-> value].
RECURSIVE SortDesc(_)
SortDesc(s) ==
    IF s = <<>> THEN <<>>
    ELSE InsertDesc(s[Len(s)], SortDesc(SubSeq(s, 1, Len(s) - 1)))

SeqToSet(s) == {s[i] : i \in 1..Len(s)}

\* Array.prototype.find: first index whose test result hit[i] is true, 0 when none.
FirstIndex(hit) ==
    IF \E i \in 1..Len(hit) : hit[i]
    THEN CHOOSE i \in 1..Len(hit) : hit[i] /\ \A j \in 1..(i - 1) : ~hit[j]
    ELSE 0

----------------------------------------------------------------------------
(* Numbers of the code are IEEE-754 doubles.  A double is kept exactly, as *)
(* a sign and a magnitude in fixed point: NumLimbs digits of LimbBits bits *)
(* each, most significant first, the first NumIntLimbs of them before the  *)
(* binary point.  The sum, difference, product and quotient of the code    *)
(* are the exact result rounded to 53 significant bits, ties to even.      *)
(* The digits hold every double between 2^-22 and 2^15 exactly.            *)

LimbBits == 15
LimbBase == 32768
NumLimbs == 6
NumIntLimbs == 1
\* Significant bits of a double.
Precision == 53

\* The powers of two up to LimbBase: Pow2[r + 1] is 2^r.
Pow2 == <<1, 2, 4, 8, 16, 32, 64, 128, 256, 512, 1024, 2048, 4096, 8192, 16384, 32768>>

\* Number of bits of a digit: 0 for 0, h when 2^(h-1) <= x < 2^h.
BitLen(x) ==
    IF x >= 256
    THEN IF x >= 4096
         THEN IF x >= 16384 THEN 15 ELSE IF x >= 8192 THEN 14 ELSE 13
         ELSE IF x >= 1024 THEN (IF x >= 2048 THEN 12 ELSE 11)
              ELSE IF x >= 512 THEN 10 ELSE 9
    ELSE IF x >= 16
         THEN IF x >= 64 THEN (IF x >= 128 THEN 8 ELSE 7)
              ELSE IF x >= 32 THEN 6 ELSE 5
         ELSE IF x >= 4 THEN (IF x >= 8 THEN 4 ELSE 3)
              ELSE IF x >= 2 THEN 2 ELSE x

ZeroMag == <<0, 0, 0, 0, 0, 0>>

\* A digit set alone: v at place j.
DigitAt(j, v) == [ZeroMag EXCEPT ![j] = v]

\* -1, 0, 1 as magnitude a is below, equal to, above magnitude b.
MagCmp(a, b) ==
    IF a[1] # b[1] THEN (IF a[1] > b[1] THEN 1 ELSE -1)
    ELSE IF a[2] # b[2] THEN (IF a[2] > b[2] THEN 1 ELSE -1)
    ELSE IF a[3] # b[3] THEN (IF a[3] > b[3] THEN 1 ELSE -1)
    ELSE IF a[4] # b[4] THEN (IF a[4] > b[4] THEN 1 ELSE -1)
    ELSE IF a[5] # b[5] THEN (IF a[5] > b[5] THEN 1 ELSE -1)
    ELSE IF a[6] # b[6] THEN (IF a[6] > b[6] THEN 1 ELSE -1)
    ELSE 0

\* a + b, digit by digit from the last, carrying.
MagAdd(a, b) ==
    LET s6 == a[6] + b[6]
        s5 == a[5] + b[5] + (s6 \div LimbBase)
        s4 == a[4] + b[4] + (s5 \div LimbBase)
        s3 == a[3] + b[3] + (s4 \div LimbBase)
        s2 == a[2] + b[2] + (s3 \div LimbBase)
        s1 == a[1] + b[1] + (s2 \div LimbBase)
    IN <<s1 % LimbBase, s2 % LimbBase, s3 % LimbBase, s4 % LimbBase, s5 % LimbBase,
         s6 % LimbBase>>

\* a - b for a >= b, digit by digit from the last, borrowing.
MagSub(a, b) ==
    LET s6 == a[6] - b[6]
        s5 == a[5] - b[5] - (IF s6 < 0 THEN 1 ELSE 0)
        s4 == a[4] - b[4] - (IF s5 < 0 THEN 1 ELSE 0)
        s3 == a[3] - b[3] - (IF s4 < 0 THEN 1 ELSE 0)
        s2 == a[2] - b[2] - (IF s3 < 0 THEN 1 ELSE 0)
        s1 == a[1] - b[1] - (IF s2 < 0 THEN 1 ELSE 0)
    IN <<s1 % LimbBase, s2 % LimbBase, s3 % LimbBase, s4 % LimbBase, s5 % LimbBase,
         s6 % LimbBase>>

\* a * n for 0 <= n < LimbBase, digit by digit from the last, carrying.
MagMulInt(a, n) ==
    LET s6 == a[6] * n
        s5 == a[5] * n + (s6 \div LimbBase)
        s4 == a[4] * n + (s5 \div LimbBase)
        s3 == a[3] * n + (s4 \div LimbBase)
        s2 == a[2] * n + (s3 \div LimbBase)
        s1 == a[1] * n + (s2 \div LimbBase)
    IN <<s1 % LimbBase, s2 % LimbBase, s3 % LimbBase, s4 % LimbBase, s5 % LimbBase,
         s6 % LimbBase>>

\* The magnitude of the integer n, 0 <= n < LimbBase.
MagOfInt(n) == <<n, 0, 0, 0, 0, 0>>

\* The place of the first digit of a that is set (the last when none is).
TopDigit(a) ==
    IF a[1] # 0 THEN 1 ELSE IF a[2] # 0 THEN 2 ELSE IF a[3] # 0 THEN 3
    ELSE IF a[4] # 0 THEN 4 ELSE IF a[5] # 0 THEN 5 ELSE 6

\* Whether any digit of a after place i is set.
Below(a, i) == \E n \in (i + 1)..NumLimbs : a[n] # 0

\* The digits of a above place j kept, digit j replaced by dj, those below
\* cleared (the cut falls in one of the last three digits).
CutAt(a, j, dj) ==
    IF j = 4 THEN <<a[1], a[2], a[3], dj, 0, 0>>
    ELSE IF j = 5 THEN <<a[1], a[2], a[3], a[4], dj, 0>>
    ELSE <<a[1], a[2], a[3], a[4], a[5], dj>>

\* The dropped bits against half a unit of the last place kept: -1, 0, 1.
\* The cut leaves r bits of digit j below it, lowJ is their value.
HalfCmp(a, j, r, unit, lowJ) ==
    IF r >= 1
    THEN IF lowJ > unit \div 2 THEN 1
         ELSE IF lowJ < unit \div 2 THEN -1
         ELSE IF Below(a, j) THEN 1 ELSE 0
    ELSE IF a[j + 1] > LimbBase \div 2 THEN 1
         ELSE IF a[j + 1] < LimbBase \div 2 THEN -1
         ELSE IF Below(a, j + 1) THEN 1 ELSE 0

\* Round up: past the half, or at the half when the exact value is above a
\* (sticky) or the last bit kept is odd.
RoundsUp(a, sticky, j, unit, cmp) ==
    cmp = 1 \/ (cmp = 0 /\ (sticky \/ (a[j] \div unit) % 2 = 1))

\* Digit j with its dropped bits cleared (cutJ), and then rounded.
RoundDigit(a, j, unit, cutJ, up) ==
    IF ~up THEN CutAt(a, j, cutJ)
    ELSE IF cutJ + unit < LimbBase THEN CutAt(a, j, cutJ + unit)
    ELSE MagAdd(CutAt(a, j, cutJ), DigitAt(j, unit))

\* lowJ: the dropped bits of digit j.
RoundLow(a, sticky, j, r, unit, lowJ) ==
    RoundDigit(a, j, unit, a[j] - lowJ,
               RoundsUp(a, sticky, j, unit, HalfCmp(a, j, r, unit, lowJ)))

\* unit: the last place kept, as a value of digit j (2^r).
RoundUnit(a, sticky, j, r, unit) == RoundLow(a, sticky, j, r, unit, a[j] % unit)

\* drop: the number of low bits to drop; the cut falls in digit
\* NumLimbs - drop \div LimbBits, with drop % LimbBits bits of it below the cut.
RoundDrop(a, sticky, drop) ==
    IF drop <= 0 THEN a
    ELSE RoundUnit(a, sticky, NumLimbs - (drop \div LimbBits), drop % LimbBits,
                   Pow2[(drop % LimbBits) + 1])

\* top: the place of the first digit set; its bits and the digits after it
\* make the significant bits, of which Precision are kept.
RoundTop(a, sticky, top) ==
    RoundDrop(a, sticky, (NumLimbs - top) * LimbBits + BitLen(a[top]) - Precision)

\* Round to nearest, ties to even, at Precision significant bits.  sticky:
\* the exact value exceeds magnitude a by less than its last place.
RoundMag(a, sticky) == RoundTop(a, sticky, TopDigit(a))

\* A fraction digit of r / q for 0 <= r < q < 2^26, found five bits at a
\* time, and the remainder left.
FracDigit(r, q) ==
    LET c1 == (r * 32) \div q
        r1 == (r * 32) % q
        c2 == (r1 * 32) \div q
        r2 == (r1 * 32) % q
        c3 == (r2 * 32) \div q
        r3 == (r2 * 32) % q
    IN [digit |-> c1 * 1024 + c2 * 32 + c3, rem |-> r3]

\* The next n fraction digits of r / q for 0 <= r < q, and the remainder left.
RECURSIVE FracDigits(_, _, _)
FracDigits(r, q, n) ==
    IF n = 0 THEN [digits |-> <<>>, rem |-> r]
    ELSE LET d == FracDigit(r, q)
             rest == FracDigits(d.rem, q, n - 1)
         IN [digits |-> <<d.digit>> \o rest.digits, rem |-> rest.rem]

\* The integer part and the fraction digits found, rounded.
DivRound(int, frac) == RoundMag(<<int>> \o frac.digits, frac.rem # 0)

\* The magnitude of the double p / q for integers 0 <= p < q * LimbBase, q > 0.
MagDiv(p, q) ==
    IF p % q = 0 THEN MagOfInt(p \div q)
    ELSE DivRound(p \div q, FracDigits(p % q, q, NumLimbs - NumIntLimbs))

\* floor(r / b) for a quotient below 2^(i+1), found bit by bit from bit i
\* down by restoring division, and what is left of r.
RECURSIVE QuotInt(_, _, _)
QuotInt(r, b, i) ==
    IF i < 0 \/ r = ZeroMag THEN [q |-> 0, rem |-> r]
    ELSE LET d == MagMulInt(b, Pow2[i + 1])
             take == b[1] * Pow2[i + 1] <= r[1] /\ MagCmp(r, d) >= 0
             rest == QuotInt(IF take THEN MagSub(r, d) ELSE r, b, i - 1)
         IN [q |-> (IF take THEN Pow2[i + 1] ELSE 0) + rest.q, rem |-> rest.rem]

\* The next n bits of r / b for r < b, as one digit, and the remainder left.
RECURSIVE QuotBits(_, _, _)
QuotBits(r, b, n) ==
    IF n = 0 \/ r = ZeroMag THEN [q |-> 0, rem |-> r]
    ELSE LET twice == MagAdd(r, r)
             take == MagCmp(twice, b) >= 0
             rest == QuotBits(IF take THEN MagSub(twice, b) ELSE twice, b, n - 1)
         IN [q |-> (IF take THEN Pow2[n] ELSE 0) + rest.q, rem |-> rest.rem]

\* The next n digits of r / b for r < b, and the remainder left.
RECURSIVE QuotDigits(_, _, _)
QuotDigits(r, b, n) ==
    IF n = 0 THEN [digits |-> <<>>, rem |-> r]
    ELSE LET d == QuotBits(r, b, LimbBits)
             rest == QuotDigits(d.rem, b, n - 1)
         IN [digits |-> <<d.q>> \o rest.digits, rem |-> rest.rem]

\* The integer part and the fraction digits found, rounded.
QuotRound(int, frac) == RoundMag(<<int.q>> \o frac.digits, frac.rem # ZeroMag)

\* The fraction digits from what the integer part left.
QuotFrom(b, int) == QuotRound(int, QuotDigits(int.rem, b, NumLimbs - NumIntLimbs))

\* The magnitude of the double a / b of two magnitudes, 0 < b < 2^14 and
\* a / b < LimbBase (a / 1 is a).
MagQuot(a, b) ==
    IF b = MagOfInt(1) THEN a ELSE QuotFrom(b, QuotInt(a, b, LimbBits - 1))

NumZero == [neg |-> FALSE, mag |-> ZeroMag]
MkNum(neg, mag) == IF mag = ZeroMag THEN NumZero ELSE [neg |-> neg, mag |-> mag]

\* The double of an integer.
NumInt(n) == MkNum(n < 0, MagOfInt(IF n < 0 THEN -n ELSE n))

\* p / q of two integers, q > 0.
NumDiv(p, q) == MkNum(p < 0, MagDiv(IF p < 0 THEN -p ELSE p, q))

\* The doubles of the decimals 0.000 .. 1.000, computed once.
Decimals == [k \in 0..1000 |-> NumDiv(k, 1000)] @@ <<>>

\* The double of a decimal written in thousandths (0.55 is Num(550)).
Num(k) == Decimals[k]

NumNeg(x) == MkNum(~x.neg, x.mag)
NumAbs(x) == MkNum(FALSE, x.mag)

\* The sign and the exact magnitude of x + y.
SumNeg(x, y) ==
    IF x.neg = y.neg \/ MagCmp(x.mag, y.mag) >= 0 THEN x.neg ELSE y.neg
SumMag(x, y) ==
    IF x.neg = y.neg THEN MagAdd(x.mag, y.mag)
    ELSE IF MagCmp(x.mag, y.mag) >= 0 THEN MagSub(x.mag, y.mag)
    ELSE MagSub(y.mag, x.mag)

\* x + y
NumAdd(x, y) == MkNum(SumNeg(x, y), RoundMag(SumMag(x, y), FALSE))

\* x - y
NumSub(x, y) == NumAdd(x, NumNeg(y))

\* n * x for an integer 0 <= n < LimbBase
NumMulInt(n, x) == MkNum(x.neg, RoundMag(MagMulInt(x.mag, n), FALSE))

\* x / y of two doubles, y # 0
NumQuot(x, y) == MkNum(x.neg # y.neg, MagQuot(x.mag, y.mag))

\* 0.5 * x
NumHalf(x) ==
    LET m == x.mag
        halfAt(i) == (m[i] \div 2) + (IF m[i - 1] % 2 = 1 THEN LimbBase \div 2 ELSE 0)
    IN MkNum(x.neg, <<m[1] \div 2, halfAt(2), halfAt(3), halfAt(4), halfAt(5), halfAt(6)>>)

\* -1, 0, 1 as x < y, x = y, x > y
NumCmp(x, y) ==
    IF x.neg # y.neg THEN (IF x.neg THEN -1 ELSE 1)
    ELSE IF x.neg THEN MagCmp(y.mag, x.mag) ELSE MagCmp(x.mag, y.mag)

NumLt(x, y) == NumCmp(x, y) < 0
NumGt(x, y) == NumCmp(x, y) > 0
NumGe(x, y) == NumCmp(x, y) >= 0

\* Math.floor(x) for x >= 0
NumFloor(x) == x.mag[1]

\* Math.round(x): the nearest integer, halves toward +Infinity
NumRound(x) ==
    LET m == x.mag
        half == LimbBase \div 2
        pastHalf == m[2] > half \/ (m[2] = half /\ (m[3] # 0 \/ m[4] # 0 \/ m[5] # 0 \/ m[6] # 0))
    IN IF x.neg THEN -(m[1] + (IF pastHalf THEN 1 ELSE 0))
       ELSE m[1] + (IF m[2] >= half THEN 1 ELSE 0)

RECURSIVE InsertDescNum(_, _)
InsertDescNum(x, s) ==
    IF s = <<>> THEN <<x>>
    ELSE IF NumGt(x.k, Head(s).k) THEN <<x>> \o s
    ELSE <<Head(s)>> \o InsertDescNum(x, Tail(s))

\* Array.prototype.sort((a, b) => key(b) - key(a)) on computed keys: stable,
\* descending.  Elements are records [k |-> double, v |-> value].
RECURSIVE SortDescNum(_)
SortDescNum(s) ==
    IF s = <<>> THEN <<>>
    ELSE InsertDescNum(s[Len(s)], SortDescNum(SubSeq(s, 1, Len(s) - 1)))

----------------------------------------------------------------------------
(* Types *)

\* The DocumentType enum (types/document-type.enum): four string-valued members.
RECEIPT == "receipt"
DOCUMENT == "document"
SCREENSHOT == "screenshot"
UNKNOWN == "unknown"
DocumentType == {RECEIPT, DOCUMENT, SCREENSHOT, UNKNOWN}

\* An optional number (summary.confidence): <<>> when absent, <<v>> when present.
Absent == <<>>
Some(v) == <<v>>
\* x ?? d
OrElse(x, d) == IF x = Absent THEN d ELSE x[1]

TOP_BAR == "Top status bar"
BOTTOM_BAR == "Bottom nav bar"

\* An absent optional box (summary.primaryBox === undefined).
NoBox == [absent |-> TRUE]
\* An absent meta record on a detection.
NoMeta == [synthetic |-> FALSE, source |-> "", reason |-> "", validated |-> FALSE]

MkBox(a, b, c, d) == [x1 |-> a, y1 |-> b, x2 |-> c, y2 |-> d]

DEFAULT_TOL ==
    [ minBarWidthFrac        |-> 800,
      topBottomBandFrac      |-> 120,
      maxBarHeightFrac       |-> 150,
      insideSlackPx          |-> 8,
      classMargin            |-> 70,
      minPrimaryAreaFrac     |-> 200,
      screenshotMinCoverFrac |-> 800,
      screenshotBarBonus     |-> 50,
      screenshotBothBarsBonus |-> 30,
      screenshotCoverBonus   |-> 50,
      altCandidateMaxDelta   |-> 60 ]

----------------------------------------------------------------------------
(* Utilities of the refinement engine *)

clamp(v, lo, hi) == Max(lo, Min(hi, v))

area(box) == Max(0, box.x2 - box.x1) * Max(0, box.y2 - box.y1)

intersect(a, b) ==
    [ x1 |-> Max(a.x1, b.x1), y1 |-> Max(a.y1, b.y1),
      x2 |-> Min(a.x2, b.x2), y2 |-> Min(a.y2, b.y2) ]

\* interA / unionA when unionA > 0, else 0.
iou(a, b) ==
    LET interA == area(intersect(a, b))
        unionA == area(a) + area(b) - interA
    IN IF unionA > 0 THEN <<interA, unionA>> ELSE <<0, 1>>

\* iou >= p/1000, iou < p/1000, iou > p/1000
IouGe(q, p) == q[1] * 1000 >= p * q[2]
IouLt(q, p) == q[1] * 1000 < p * q[2]
IouGt(q, p) == q[1] * 1000 > p * q[2]

\* area / (W * H) as the code divides it: <<n, d>> with d possibly 0.
\* cover < t and cover >= t for t in thousandths, with x/0 = Infinity or NaN.
CoverLt(c, t) == IF c[2] > 0 THEN c[1] * 1000 < t * c[2] ELSE FALSE
CoverGe(c, t) == IF c[2] > 0 THEN c[1] * 1000 >= t * c[2] ELSE c[1] > 0

\* options.tol of a caller who overrides no tolerance (absent, or {}).
NoTol == [k \in DOMAIN DEFAULT_TOL |-> Absent]

\* The fields of defaultTol, each replaced by the override given for it.
overridden(defaultTol, overrides) ==
    [k \in DOMAIN defaultTol |-> OrElse(overrides[k], defaultTol[k])]

\* Object.assign(DEFAULT_TOL, options.tol ?? {}): the overrides are written
\* into the module's object, which every later call reads.
assignTol(defaultTol, overrides) ==
    [tol |-> overridden(defaultTol, overrides), left |-> overridden(defaultTol, overrides)]

\* { ...DEFAULT_TOL, ...(options.tol ?? {}) }: tol is a new object holding the
\* defaults under the overrides; left is DEFAULT_TOL after the expression,
\* which only reads it.
spreadTol(defaultTol, overrides) ==
    [tol |-> overridden(defaultTol, overrides), left |-> defaultTol]

\* DEFAULT_TOL is the module's object as the calls made so far have left it.
buildConfig(opts) ==
    [ tol |-> spreadTol(moduleTol, opts.tol).tol, allowRetype |-> opts.allowRetype,
      keepDiagnostics |-> opts.keepDiagnostics ]

\* DEFAULT_TOL after a call that built its configuration from opts: no other
\* statement of the engine names the object or the configuration's tol.
tolAfter(opts) == spreadTol(moduleTol, opts.tol).left

----------------------------------------------------------------------------
(* Object identity.  A reference is the path of an object inside the       *)
(* caller's input, or Fresh for an object allocated during the call.  A    *)
(* store through a reference that is not Fresh changes the caller's input. *)

Fresh == <<>>
SummaryRef == <<"summary">>
DetectionsRef == <<"detections">>
DetRef(i) == <<"detections", i>>
Child(ref, name) == IF ref = Fresh THEN Fresh ELSE Append(ref, name)

\* The reference a deep copy shares with its source: a bug that hands out the
\* source object itself.
copyAliased(ref) == ref

\* copy(x) = JSON.parse(JSON.stringify(x)): a new object graph with the same
\* numbers, strings and booleans; absent optional fields stay absent.
copy(ref) == Fresh

\* A store obj.field = val through ref: recorded only when it reaches the input.
Store(ref, field, val) ==
    IF ref = Fresh THEN <<>> ELSE <<[ref |-> ref, field |-> field, val |-> val]>>

ApplyStore(in, s) ==
    IF s.ref = SummaryRef THEN
        [in EXCEPT !.summary = [@ EXCEPT ![s.field] = s.val]]
    ELSE IF s.ref = <<"summary", "primaryBox">> THEN
        [in EXCEPT !.summary.primaryBox = [@ EXCEPT ![s.field] = s.val]]
    ELSE IF s.ref = <<"summary", "quality">> THEN
        [in EXCEPT !.summary.isPartial = s.val]
    ELSE IF s.ref = DetectionsRef THEN
        [in EXCEPT !.detections = s.val]
    ELSE IF Len(s.ref) = 2 THEN
        [in EXCEPT !.detections[s.ref[2]] = [@ EXCEPT ![s.field] = s.val]]
    ELSE
        [in EXCEPT !.detections[s.ref[2]].box = [@ EXCEPT ![s.field] = s.val]]

RECURSIVE ApplyStores(_, _)
ApplyStores(in, stores) ==
    IF stores = <<>> THEN in
    ELSE ApplyStores(ApplyStore(in, Head(stores)), Tail(stores))

----------------------------------------------------------------------------
(* Main class selection *)

\* Receipt mapped to the Document type.
preferredReceiptAsDocument(lbl) ==
    IF lbl = "Receipt" THEN DOCUMENT
    ELSE IF lbl = "Document" THEN DOCUMENT
    ELSE IF lbl = "Screenshot" THEN SCREENSHOT
    ELSE UNKNOWN

preferred(lbl) ==
    IF lbl = "Receipt" THEN RECEIPT
    ELSE IF lbl = "Document" THEN DOCUMENT
    ELSE IF lbl = "Screenshot" THEN SCREENSHOT
    ELSE UNKNOWN

preferredHas(lbl) == lbl \in {"Receipt", "Document", "Screenshot"}

\* Index of the detection byClass holds for label lbl: the first detection of
\* that label whose score no other detection of the label exceeds.
byClassIndex(dets, lbl) ==
    CHOOSE i \in 1..Len(dets) :
        /\ dets[i].label = lbl
        /\ \A j \in 1..Len(dets) : dets[j].label = lbl => ~NumGt(dets[j].score, dets[i].score)
        /\ \A j \in 1..(i - 1) : dets[j].label = lbl => NumLt(dets[j].score, dets[i].score)

\* Indices at which a preferred label appears for the first time, in order.
firstAppearances(dets) ==
    SelectSeq([i \in 1..Len(dets) |-> i],
              LAMBDA i : /\ preferredHas(dets[i].label)
                         /\ \A j \in 1..(i - 1) : dets[j].label # dets[i].label)

entriesAt(dets, firsts) ==
    [n \in 1..Len(firsts) |->
        [lbl |-> dets[firsts[n]].label, at |-> byClassIndex(dets, dets[firsts[n]].label)]]

\* Array.from(byClass.entries()): one candidate per label, in the order the labels
\* first appear in the detections.
byClassEntries(dets) == entriesAt(dets, firstAppearances(dets))

hasLabel(dets, lbl) == \E i \in 1..Len(dets) : dets[i].label = lbl

\* Screenshot boosted whether or not a bar is present.
boostAlways(lbl, s, hasBar) ==
    IF lbl = "Screenshot" THEN NumAdd(s, Num(50)) ELSE s

\* Comparison score of a candidate: Screenshot gains 0.05 when a bar is present.
boost(lbl, s, hasBar) ==
    IF lbl = "Screenshot" /\ hasBar THEN NumAdd(s, Num(50)) ELSE s

\* Every pair of leaders taken for a tie.
nearTieAlways(bestScore, secondScore, tol) == TRUE

\* The tie test of pickMainType: the two leading candidates differ by less than
\* classMargin in raw score.
nearTie(bestScore, secondScore, tol) ==
    NumLt(NumAbs(NumSub(bestScore, secondScore)), Num(tol.classMargin))

keyedEntries(dets, entries, hasBar) ==
    [n \in 1..Len(entries) |->
        [k |-> boost(entries[n].lbl, dets[entries[n].at].score, hasBar),
         v |-> entries[n]]]

unkeyed(sorted) == [n \in 1..Len(sorted) |-> sorted[n].v]

\* cand after the sort: the byClass entries, stable-sorted by boosted score.
sortedCand(dets, hasBar) ==
    unkeyed(SortDescNum(keyedEntries(dets, byClassEntries(dets), hasBar)))

\* The choice among the sorted candidates (index into cand) and its trace note.
pickAmong(result, tol, cand, hasBar) ==
    LET dets == result.detections
        find(lbl) == FirstIndex([i \in 1..Len(cand) |-> cand[i].lbl = lbl])
        tie == /\ Len(cand) >= 2
               /\ nearTie(dets[cand[1].at].score, dets[cand[2].at].score, tol)
    IN IF tie /\ hasBar
       THEN [at |-> IF find("Screenshot") # 0 THEN find("Screenshot") ELSE 1,
             notes |-> <<"tie-breaker: bars present -> prefer Screenshot">>]
       ELSE IF tie /\ result.meta.aspectRatio >= 65 /\ find("Document") # 0
       THEN [at |-> find("Document"),
             notes |-> <<"tie-breaker: AR~A4 & no bars -> prefer Document">>]
       ELSE [at |-> 1, notes |-> <<>>]

pickResult(result, cand, p) ==
    IF Len(cand) = 0
    THEN [type |-> result.summary.documentType,
          conf |-> OrElse(result.summary.confidence, Num(0)),
          at |-> 0, notes |-> <<>>]
    ELSE [type |-> preferred(cand[p.at].lbl),
          conf |-> result.detections[cand[p.at].at].score,
          at |-> cand[p.at].at, notes |-> p.notes]

pickSorted(result, tol, cand, hasBar) ==
    pickResult(result, cand,
               IF Len(cand) = 0 THEN [at |-> 0, notes |-> <<>>]
               ELSE pickAmong(result, tol, cand, hasBar))

hasAnyBar(dets) == hasLabel(dets, TOP_BAR) \/ hasLabel(dets, BOTTOM_BAR)

\* Returns [type, conf, at, notes]: at is the index in result.detections of the
\* picked detection (primary), 0 when there is none.
pickMainType(result, tol) ==
    pickSorted(result, tol,
               sortedCand(result.detections, hasAnyBar(result.detections)),
               hasAnyBar(result.detections))

----------------------------------------------------------------------------
(* Bar validation.  Trace notes keep the fixed text of the code's template *)
(* strings; the interpolated percentages are left out.                     *)

\* The width check left out.
neverTooNarrow(bW, cW, tol) == FALSE

\* bW < cW * minBarWidthFrac, for a container of width cW >= 0
tooNarrow(bW, cW, tol) == NumLt(NumInt(bW), NumMulInt(cW, Num(tol.minBarWidthFrac)))

\* bH > cH * maxBarHeightFrac, for a container of height cH >= 0
tooTall(bH, cH, tol) == NumGt(NumInt(bH), NumMulInt(cH, Num(tol.maxBarHeightFrac)))

\* Returns [ok, det, notes, stores]; det is the annotated copy when ok.
\* ref is the reference of the bar object handed in.
validateBarNoMutate(bar, ref, container, which, tol) ==
    LET cW == container.x2 - container.x1
        cH == container.y2 - container.y1
        inter == intersect(bar.box, container)
        interA == area(inter)
        bW == inter.x2 - inter.x1
        bH == inter.y2 - inter.y1
        bandH == NumMulInt(cH, Num(tol.topBottomBandFrac))
        cy == NumHalf(NumInt(inter.y1 + inter.y2))
        topBandY2 == NumAdd(NumInt(container.y1), bandH)
        botBandY1 == NumSub(NumInt(container.y2), bandH)
        outRef == copy(ref)
        newMeta == [bar.meta EXCEPT !.source = "refine", !.validated = TRUE,
                                    !.reason = "bar_valid"]
        reject(note) == [ok |-> FALSE, det |-> bar, notes |-> <<note>>, stores |-> <<>>]
    IN IF interA <= 0 THEN reject("drop " \o bar.label \o ": outside primaryBox")
       ELSE IF tooNarrow(bW, cW, tol)
            THEN reject("drop " \o bar.label \o ": too narrow")
       ELSE IF tooTall(bH, cH, tol)
            THEN reject("drop " \o bar.label \o ": too tall")
       ELSE IF which = "top" /\ NumGt(cy, topBandY2)
            THEN reject("drop Top status bar: vertical position invalid")
       ELSE IF which = "bottom" /\ NumLt(cy, botBandY1)
            THEN reject("drop Bottom nav bar: vertical position invalid")
       ELSE [ok |-> TRUE,
             det |-> [bar EXCEPT !.meta = newMeta],
             notes |-> <<>>,
             stores |-> Store(outRef, "meta", newMeta)]

----------------------------------------------------------------------------
(* Screenshot score with bonuses *)

\* The bonus for two valid bars left out.
scoreScreenshotNoPair(container, topOk, botOk, frameW, frameH, baseConf, tol) ==
    LET cover == <<area(container), frameW * frameH>>
        validBars == (IF topOk THEN 1 ELSE 0) + (IF botOk THEN 1 ELSE 0)
        base == baseConf
        withTop == IF topOk THEN NumAdd(base, Num(tol.screenshotBarBonus)) ELSE base
        withBot == IF botOk THEN NumAdd(withTop, Num(tol.screenshotBarBonus)) ELSE withTop
        score == IF CoverGe(cover, tol.screenshotMinCoverFrac)
                 THEN NumAdd(withBot, Num(tol.screenshotCoverBonus)) ELSE withBot
    IN [score |-> score, cover |-> cover, validBars |-> validBars]

\* topOk, botOk: whether the validated bar is non-null.  The score is the
\* double the code's successive additions give.
scoreScreenshot(container, topOk, botOk, frameW, frameH, baseConf, tol) ==
    LET cover == <<area(container), frameW * frameH>>
        validBars == (IF topOk THEN 1 ELSE 0) + (IF botOk THEN 1 ELSE 0)
        base == baseConf
        withTop == IF topOk THEN NumAdd(base, Num(tol.screenshotBarBonus)) ELSE base
        withBot == IF botOk THEN NumAdd(withTop, Num(tol.screenshotBarBonus)) ELSE withTop
        withBoth == IF validBars = 2
                    THEN NumAdd(withBot, Num(tol.screenshotBothBarsBonus)) ELSE withBot
        score == IF CoverGe(cover, tol.screenshotMinCoverFrac)
                 THEN NumAdd(withBoth, Num(tol.screenshotCoverBonus)) ELSE withBoth
    IN [score |-> score, cover |-> cover, validBars |-> validBars]

----------------------------------------------------------------------------
(* Primary-detection upsert *)

\* The label upsertPrimaryDetection looks for, "" when the type has none.
wantedLbl(type) ==
    IF type = SCREENSHOT THEN "Screenshot"
    ELSE IF type = DOCUMENT THEN "Document"
    ELSE IF type = RECEIPT THEN "Receipt"
    ELSE ""

\* The IoU test left out: any detection of the label counts as a match.
hasMatchAnyIou(dets, lbl, pb, p) ==
    \E i \in 1..Len(dets) : dets[i].label = lbl

\* Whether some detection labelled lbl has IoU >= p/1000 with box pb.
hasMatch(dets, lbl, pb, p) ==
    \E i \in 1..Len(dets) : dets[i].label = lbl /\ IouGe(iou(dets[i].box, pb), p)

\* Returns [detections, notes, stores]; detsRef is the reference of out.detections.
upsertPrimaryDetection(summary, dets, detsRef, lbl) ==
    LET pb == summary.primaryBox
        keep == [detections |-> dets, notes |-> <<>>, stores |-> <<>>]
    IN IF pb = NoBox \/ lbl = "" THEN keep
       ELSE IF hasMatch(dets, lbl, pb, 900) THEN keep
       ELSE LET det == [label |-> lbl,
                        score |-> OrElse(summary.confidence, Num(0)),
                        box |-> pb,
                        meta |-> [synthetic |-> TRUE, source |-> "refine",
                                  reason |-> "matches_primaryBox", validated |-> FALSE]]
                pushed == Append(dets, det)
            IN [detections |-> pushed,
                notes |-> <<"detections: inserted synthetic main-class box to match primaryBox">>,
                stores |-> Store(detsRef, "detections", pushed)]

----------------------------------------------------------------------------
(* Main refinement pipeline.  The working value w carries the local        *)
(* variables of refineDocumentAnalysis: summary, outDetections (dets),     *)
(* notes, the references of the summary and of its primaryBox object, and  *)
(* the stores that reached the caller's objects.                           *)

isBar(d) == d.label = TOP_BAR \/ d.label = BOTTOM_BAR

SetSummary(w, field, val) ==
    [w EXCEPT !.summary[field] = val,
              !.stores = @ \o Store(w.sumRef, field, val)]

AddNotes(w, ns) == [w EXCEPT !.notes = @ \o ns]

\* Index in dets of the element .filter(by label).sort(by score, descending)[0]
\* returns, the label being one of labels: the first such detection that no
\* other one outscores.  0 when there is none.
bestByScore(dets, labels) ==
    LET Test(d) == d.label \in labels
    IN IF \E i \in 1..Len(dets) : Test(dets[i])
       THEN CHOOSE i \in 1..Len(dets) :
               /\ Test(dets[i])
               /\ \A j \in 1..Len(dets) : Test(dets[j]) => ~NumGt(dets[j].score, dets[i].score)
               /\ \A j \in 1..(i - 1) : Test(dets[j]) => NumLt(dets[j].score, dets[i].score)
       ELSE 0

\* The allowRetype test left out.
retypeAlways(w, in, pick, cfg) ==
    IF pick.type # in.summary.documentType
    THEN SetSummary(SetSummary(w, "documentType", pick.type), "confidence", Some(pick.conf))
    ELSE w

\* 2) Retype if allowed
retype(w, in, pick, cfg) ==
    IF cfg.allowRetype /\ pick.type # in.summary.documentType
    THEN SetSummary(SetSummary(AddNotes(w, <<"retype: " \o in.summary.documentType \o " -> " \o pick.type>>),
                               "documentType", pick.type),
                    "confidence", Some(pick.conf))
    ELSE w

\* coverage < minPrimaryAreaFrac, with coverage 0 for an empty frame
isPartialCover(box, W, H, tol) ==
    IF W * H > 0 THEN area(box) * 1000 < tol.minPrimaryAreaFrac * (W * H)
    ELSE 0 < tol.minPrimaryAreaFrac

\* summary.primaryBox = copy(primary.box)
adoptPrimary(w, in, pick) ==
    [AddNotes(SetSummary(w, "primaryBox", in.detections[pick.at].box),
              <<"primaryBox: adopted from best main-class detection">>)
        EXCEPT !.pbRef = copy(<<"detections", pick.at, "box">>)]

clampBox(pb, W, H) ==
    [x1 |-> clamp(pb.x1, 0, W), y1 |-> clamp(pb.y1, 0, H),
     x2 |-> clamp(pb.x2, 0, W), y2 |-> clamp(pb.y2, 0, H)]

\* The four assignments to the coordinates of the primaryBox object.
setClamped(w, clamped) ==
    [w EXCEPT !.summary.primaryBox = clamped,
              !.stores = @ \o Store(w.pbRef, "x1", clamped.x1)
                           \o Store(w.pbRef, "x2", clamped.x2)
                           \o Store(w.pbRef, "y1", clamped.y1)
                           \o Store(w.pbRef, "y2", clamped.y2)]

\* The partial flag is written, and noted when raised, only when it changes.
flagPartial(w, isPartial) ==
    IF isPartial # w.summary.isPartial
    THEN [AddNotes(w, IF isPartial THEN <<"flag partial">> ELSE <<>>)
             EXCEPT !.summary.isPartial = isPartial,
                    !.stores = @ \o Store(Child(w.sumRef, "quality"),
                                           "isPartial", isPartial)]
    ELSE w

recomputePartial(w, in, cfg) ==
    flagPartial(w, isPartialCover(w.summary.primaryBox, in.meta.width,
                                  in.meta.height, cfg.tol))

clampPrimary(w, in, cfg) ==
    IF w.summary.primaryBox = NoBox THEN w
    ELSE recomputePartial(
             setClamped(w, clampBox(w.summary.primaryBox, in.meta.width, in.meta.height)),
             in, cfg)

\* 3) Primary box: adopt, clamp in place, recompute the partial flag
primaryBoxStage(w, in, pick, cfg) ==
    clampPrimary(IF w.summary.primaryBox = NoBox /\ pick.at # 0
                 THEN adoptPrimary(w, in, pick) ELSE w,
                 in, cfg)

\* The IoU term left out: the raw score alone is compared.
altReachesRaw(altDet, container, accept, tol) ==
    NumGe(altDet.score, NumSub(accept, Num(tol.altCandidateMaxDelta)))

\* alt score >= acceptance score - altCandidateMaxDelta, where
\* alt score = raw score + 0.5 * IoU(alt box, container)
altReaches(altDet, container, accept, tol) ==
    LET q == iou(altDet.box, container)
    IN NumGe(NumAdd(altDet.score, NumHalf(NumDiv(q[1], q[2]))),
             NumSub(accept, Num(tol.altCandidateMaxDelta)))

\* Screenshot container: the box of the best Screenshot detection (index
\* bestAt, 0 when there is none) or the full frame.
screenshotContainer(in, bestAt) ==
    IF bestAt # 0 THEN in.detections[bestAt].box
    ELSE MkBox(0, 0, in.meta.width, in.meta.height)

\* topOk / botOk: the validation of the first bar labelled lbl, when there is one.
validatedBar(in, at, container, which, tol) ==
    IF at # 0
    THEN validateBarNoMutate(in.detections[at], DetRef(at), container, which, tol)
    ELSE [ok |-> FALSE, notes |-> <<>>, stores |-> <<>>]

\* The switch: the alternative's type, raw score and box; no bars are added.
switchToAlt(w, alt) ==
    SetSummary(
      SetSummary(
        SetSummary(AddNotes(w, <<"switch: Screenshot -> "
                                 \o (IF alt.label = "Document" THEN DOCUMENT ELSE RECEIPT)>>),
                   "documentType", IF alt.label = "Document" THEN DOCUMENT ELSE RECEIPT),
        "confidence", Some(alt.score)),
      "primaryBox", alt.box)

\* Keep Screenshot: primary box, acceptance score as confidence, valid bars appended.
keepScreenshot(w, in, cfg, bestAt, container, top, bot, score) ==
    [SetSummary(
        IF bestAt = 0
           \/ CoverLt(<<area(container), in.meta.width * in.meta.height>>,
                      cfg.tol.screenshotMinCoverFrac)
        THEN AddNotes(SetSummary(w, "primaryBox", MkBox(0, 0, in.meta.width, in.meta.height)),
                      <<"primaryBox: forced to full frame for Screenshot">>)
        ELSE SetSummary(w, "primaryBox", container),
        "confidence", Some(score))
     EXCEPT !.dets = @ \o (IF top.ok THEN <<top.det>> ELSE <<>>)
                       \o (IF bot.ok THEN <<bot.det>> ELSE <<>>)]

needSwitchToAlt(in, cfg, container, s, altAt) ==
    /\ CoverLt(s.cover, cfg.tol.screenshotMinCoverFrac)
    /\ altAt # 0
    /\ altReaches(in.detections[altAt], container, s.score, cfg.tol)

screenshotDecide(w, in, cfg, bestAt, container, top, bot, s, altAt) ==
    IF needSwitchToAlt(in, cfg, container, s, altAt) /\ cfg.allowRetype
    THEN switchToAlt(w, in.detections[altAt])
    ELSE keepScreenshot(w, in, cfg, bestAt, container, top, bot, s.score)

screenshotScored(w, in, cfg, bestAt, container, top, bot) ==
    screenshotDecide(
        [AddNotes(w, top.notes \o bot.notes) EXCEPT !.stores = @ \o top.stores \o bot.stores],
        in, cfg, bestAt, container, top, bot,
        scoreScreenshot(container, top.ok, bot.ok, in.meta.width, in.meta.height,
                        OrElse(w.summary.confidence,
                               IF bestAt # 0 THEN in.detections[bestAt].score ELSE Num(0)),
                        cfg.tol),
        bestByScore(in.detections, {"Document", "Receipt"}))

screenshotIn(w, in, cfg, bestAt, container) ==
    screenshotScored(w, in, cfg, bestAt, container,
        validatedBar(in, FirstIndex([i \in 1..Len(in.detections) |->
                                        in.detections[i].label = TOP_BAR]),
                     container, "top", cfg.tol),
        validatedBar(in, FirstIndex([i \in 1..Len(in.detections) |->
                                        in.detections[i].label = BOTTOM_BAR]),
                     container, "bottom", cfg.tol))

screenshotAround(w, in, cfg, bestAt) ==
    screenshotIn(w, in, cfg, bestAt, screenshotContainer(in, bestAt))

\* 6) Screenshot logic
screenshotStage(w, in, cfg) ==
    screenshotAround(w, in, cfg, bestByScore(in.detections, {"Screenshot"}))

\* Math.max(...dets.map(d => d.score)) over the detections labelled lbl
maxScore(dets, lbl) ==
    LET S == {dets[i].score : i \in {j \in 1..Len(dets) : dets[j].label = lbl}}
    IN CHOOSE m \in S : \A x \in S : NumGe(m, x)

\* Math.max(...dets.map(d => iou(d.box, pb))) over the detections labelled lbl
maxIou(dets, lbl, pb) ==
    LET S == {iou(dets[i].box, pb) : i \in {j \in 1..Len(dets) : dets[j].label = lbl}}
    IN CHOOSE m \in S : \A x \in S : QGe(m, x)

\* The IoU terms left out: the scores alone are compared.
docWinsOnScore(scoreDoc, iouDoc, scoreRec, iouRec) == NumGe(scoreDoc, scoreRec)

\* (scoreDoc + iouDoc) >= (scoreRec + iouRec)
docWins(scoreDoc, iouDoc, scoreRec, iouRec) ==
    NumGe(NumAdd(scoreDoc, NumDiv(iouDoc[1], iouDoc[2])),
          NumAdd(scoreRec, NumDiv(iouRec[1], iouRec[2])))

\* The conflict left unresolved: both labels stay.
resolveDocReceiptKeepBoth(w, cfg) == w

\* 7) Resolve Document vs Receipt
resolveDocReceipt(w, cfg) ==
    LET dets == w.dets
        pb == w.summary.primaryBox
        scoreDoc == maxScore(dets, "Document")
        scoreRec == maxScore(dets, "Receipt")
        keep == IF docWins(scoreDoc, maxIou(dets, "Document", pb),
                           scoreRec, maxIou(dets, "Receipt", pb))
                THEN "Document" ELSE "Receipt"
        wantType == IF keep = "Document" THEN DOCUMENT ELSE RECEIPT
        w1 == [w EXCEPT !.dets = SelectSeq(dets, LAMBDA d :
                    d.label = keep \/ (d.label # "Document" /\ d.label # "Receipt"))]
    IN IF hasLabel(dets, "Document") /\ hasLabel(dets, "Receipt")
          /\ pb # NoBox /\ cfg.allowRetype
       THEN IF w.summary.documentType # wantType
            THEN AddNotes(
                   SetSummary(SetSummary(w1, "documentType", wantType),
                              "confidence",
                              Some(IF keep = "Document" THEN scoreDoc ELSE scoreRec)),
                   <<"resolve doc/receipt conflict -> prefer " \o keep>>)
            ELSE w1
       ELSE w

\* cands.map(d => ({d, score: d.score + 0.5 * iou(d.box, pb)})) over the first i
\* detections: the index and key of each detection labelled lbl.
RECURSIVE scoredCands(_, _, _, _)
scoredCands(dets, lbl, pb, i) ==
    IF i = 0 THEN <<>>
    ELSE IF dets[i].label = lbl
         THEN LET q == iou(dets[i].box, pb)
              IN Append(scoredCands(dets, lbl, pb, i - 1),
                        [k |-> NumAdd(dets[i].score, NumHalf(NumDiv(q[1], q[2]))),
                         v |-> i])
         ELSE scoredCands(dets, lbl, pb, i - 1)

\* Index in dets of scored[0].d: the first of the candidates stable-sorted by
\* descending key.
bestForPrimary(dets, lbl, pb) == SortDescNum(scoredCands(dets, lbl, pb, Len(dets)))[1].v

\* The replacement made only when no detection of the label overlaps the old
\* box by half or more.
replacePrimaryIfNoneOverlaps(w, cfg) ==
    LET lbl == wantedLbl(w.summary.documentType)
        pb == w.summary.primaryBox
        best == w.dets[bestForPrimary(w.dets, lbl, pb)]
    IN IF cfg.allowRetype /\ pb # NoBox /\ hasLabel(w.dets, lbl)
          /\ \A i \in 1..Len(w.dets) : w.dets[i].label = lbl => IouLt(iou(w.dets[i].box, pb), 500)
       THEN AddNotes(SetSummary(w, "primaryBox", best.box),
                     <<"primaryBox: replaced by best " \o lbl \o " (low IoU with old)">>)
       ELSE w

\* 8) Replace primary with the best class box if IoU is low
replacePrimary(w, cfg) ==
    LET lbl == wantedLbl(w.summary.documentType)
        pb == w.summary.primaryBox
        best == w.dets[bestForPrimary(w.dets, lbl, pb)]
    IN IF cfg.allowRetype /\ pb # NoBox /\ hasLabel(w.dets, lbl)
          /\ IouLt(iou(best.box, pb), 500)
       THEN AddNotes(SetSummary(w, "primaryBox", best.box),
                     <<"primaryBox: replaced by best " \o lbl \o " (low IoU with old)">>)
       ELSE w

\* IoU threshold test of the Unknown fallback: an existing Document or
\* Screenshot detection already covers the full frame.
nearFull(q) == IouGt(q, 950)

\* The forcing that was left out: the flag keeps its value.
keepPartialFlag(w) == w

\* summary.quality.isPartial = false
forceNotPartial(w) ==
    [w EXCEPT !.summary.isPartial = FALSE,
              !.stores = @ \o Store(Child(w.sumRef, "quality"), "isPartial", FALSE)]

\* The synthetic full-frame Document and the full-frame primary box.
synthFullFrame(w, in) ==
    LET full == MkBox(0, 0, in.meta.width, in.meta.height)
        fullDoc == [label |-> "Document", score |-> Num(0), box |-> full,
                    meta |-> [synthetic |-> TRUE, source |-> "fallback",
                              reason |-> "unknown_full_frame", validated |-> FALSE]]
        w1 == IF w.summary.primaryBox = NoBox
              THEN AddNotes(SetSummary(w, "primaryBox", full),
                            <<"primaryBox: synthesized full-frame for Unknown">>)
              ELSE w
        hasNearFullDoc ==
            \E i \in 1..Len(in.detections) :
                /\ in.detections[i].label \in {"Document", "Screenshot"}
                /\ nearFull(iou(in.detections[i].box, full))
    IN IF ~hasNearFullDoc
       THEN AddNotes([w1 EXCEPT !.dets = <<fullDoc>> \o @],
                     <<"synth detection: Document full-frame for Unknown">>)
       ELSE w1

\* 9) Fallback for Unknown: synthetic full-frame Document
unknownFallback(w, in) ==
    IF w.summary.documentType = UNKNOWN
    THEN forceNotPartial(synthFullFrame(w, in))
    ELSE w

\* 4) bars are set aside, the rest is the working list;
\* 5) not a Screenshot: the bars are dropped with a note
splitBars(w, in) ==
    LET hasBars == \E i \in 1..Len(in.detections) : isBar(in.detections[i])
        rest == SelectSeq(in.detections, LAMBDA d : ~isBar(d))
    IN [w EXCEPT !.dets = rest,
                 !.notes = @ \o (IF w.summary.documentType # SCREENSHOT /\ hasBars
                                  THEN <<"drop bars: non-screenshot type">> ELSE <<>>)]

\* The diagnostics replaced by this call's notes instead of extended by them.
assembleReplacing(in, cfg, w, up) ==
    LET allNotes == w.notes \o up.notes
        signals == IF cfg.keepDiagnostics
                   THEN [in.signals EXCEPT !.present = TRUE,
                                           !.hasDiagnostics = TRUE,
                                           !.diagnostics = allNotes]
                   ELSE in.signals
    IN [out |-> [meta |-> in.meta, summary |-> w.summary,
                 detections |-> up.detections, signals |-> signals],
        notes |-> allNotes,
        stores |-> w.stores \o up.stores]

\* 10) assemble, 11) upsert result applied, diagnostics appended
assemble(in, cfg, w, up) ==
    LET allNotes == w.notes \o up.notes
        signals == IF cfg.keepDiagnostics
                   THEN [in.signals EXCEPT !.present = TRUE,
                                           !.hasDiagnostics = TRUE,
                                           !.diagnostics = @ \o allNotes]
                   ELSE in.signals
    IN [out |-> [meta |-> in.meta, summary |-> w.summary,
                 detections |-> up.detections, signals |-> signals],
        notes |-> allNotes,
        stores |-> w.stores \o up.stores]

\* 11) the primary is reflected in the detections (outDetections is a new array)
finish(in, cfg, w) ==
    assemble(in, cfg, w,
             upsertPrimaryDetection(w.summary, w.dets, Fresh,
                                    wantedLbl(w.summary.documentType)))

\* The local state after stage 3, and after stages 4 to 6 (bars, Screenshot).
afterPrimaryBox(in, cfg, pick) ==
    LET sumRef == copy(SummaryRef)
        w0 == [summary |-> in.summary, sumRef |-> sumRef,
               pbRef |-> Child(sumRef, "primaryBox"),
               dets |-> <<>>, notes |-> pick.notes, stores |-> <<>>]
    IN primaryBoxStage(retype(w0, in, pick, cfg), in, pick, cfg)

screenshotOrKeep(w, in, cfg) ==
    IF w.summary.documentType = SCREENSHOT THEN screenshotStage(w, in, cfg) ELSE w

afterScreenshot(in, cfg, pick) ==
    screenshotOrKeep(splitBars(afterPrimaryBox(in, cfg, pick), in), in, cfg)

refineWith(in, cfg, pick) ==
    finish(in, cfg,
           unknownFallback(
               replacePrimary(resolveDocReceipt(afterScreenshot(in, cfg, pick), cfg), cfg),
               in))

\* The call: returns [out, notes, stores] where out is the returned result,
\* notes the final local note list and stores the writes into the input.
refineDocumentAnalysis(in, opts) ==
    refineWith(in, buildConfig(opts), pickMainType(in, buildConfig(opts).tol))

----------------------------------------------------------------------------
(* Per-class suppression (YoloV8OnnxDetector.applyNMS).  A candidate is    *)
(* [x, y, w, h, classId, confidence] with centre and size in model space.  *)
(* Corners are kept doubled (2x - w, 2x + w) and areas times four, so that *)
(* halves stay integral; the IoU quotient is unchanged by the scaling.     *)

calculateIoU(box1, box2) ==
    LET intersectionWidth == Max(0, Min(2 * box1.x + box1.w, 2 * box2.x + box2.w)
                                    - Max(2 * box1.x - box1.w, 2 * box2.x - box2.w))
        intersectionHeight == Max(0, Min(2 * box1.y + box1.h, 2 * box2.y + box2.h)
                                     - Max(2 * box1.y - box1.h, 2 * box2.y - box2.h))
        intersectionArea == intersectionWidth * intersectionHeight
        unionArea == 4 * box1.w * box1.h + 4 * box2.w * box2.h - intersectionArea
    IN IF unionArea > 0 THEN <<intersectionArea, unionArea>> ELSE <<0, 1>>

\* The class test left out: suppression across classes.
survivesAnyClass(current, box, threshold) ==
    IouLt(calculateIoU(current, box), threshold)

\* The filter of the loop body: box stays unless it has the class of current
\* and IoU >= threshold with it.
survives(current, box, threshold) ==
    box.classId # current.classId \/ IouLt(calculateIoU(current, box), threshold)

\* The loop without its filter: every candidate is taken in turn.
nmsLoopKeepAll(boxes, threshold) == boxes

RECURSIVE nmsLoop(_, _)
nmsLoop(boxes, threshold) ==
    IF boxes = <<>> THEN <<>>
    ELSE <<Head(boxes)>>
         \o nmsLoop(SelectSeq(Tail(boxes), LAMBDA b : survives(Head(boxes), b, threshold)),
                     threshold)

\* An unstable ordering: equal confidences come out in reverse input order.
byConfidenceUnstable(boxes) ==
    unkeyed(SortDesc([i \in 1..Len(boxes) |->
        [k |-> <<boxes[Len(boxes) + 1 - i].confidence, 1>>, v |-> boxes[Len(boxes) + 1 - i]]]))

byConfidence(boxes) ==
    unkeyed(SortDesc([i \in 1..Len(boxes) |-> [k |-> <<boxes[i].confidence, 1>>, v |-> boxes[i]]]))

applyNMS(boxes, threshold) == nmsLoop(byConfidence(boxes), threshold)

\* What the call leaves in the array it was handed: sorted in place, and the
\* first element shifted off (the later filters build new arrays).
leftInArgument(boxes) ==
    IF boxes = <<>> THEN <<>> ELSE Tail(byConfidence(boxes))

----------------------------------------------------------------------------
(* Letterbox geometry (preprocessImage) and the remap of postprocessOutput *)

\* scale = Math.min(T / W, T / H), a double, for W, H > 0
scaleOf(W, H, T) ==
    LET byW == NumDiv(T, W)
        byH == NumDiv(T, H)
    IN IF NumLt(byH, byW) THEN byH ELSE byW

\* newW = Math.floor(W * scale), newH = Math.floor(H * scale) on the double scale.
letterbox(W, H, T) ==
    LET scale == scaleOf(W, H, T)
        newW == NumFloor(NumMulInt(W, scale))
        newH == NumFloor(NumMulInt(H, scale))
    IN [W |-> W, H |-> H, T |-> T, scale |-> scale, newW |-> newW, newH |-> newH,
        padX |-> FloorDiv(T - newW, 2), padY |-> FloorDiv(T - newH, 2)]

\* Math.round((v - pad) / scale) for a model-space coordinate v, a double
unpad(v, pad, scale) ==
    NumRound(NumQuot(NumSub(v, NumInt(pad)), scale))

\* The box of the Detection built from model-space corners (doubles):
\* x1, y1 are bounded below by 0, x2, y2 above by the image size.
remapCorners(c1x, c1y, c2x, c2y, g) ==
    [ x1 |-> Max(0, unpad(c1x, g.padX, g.scale)),
      y1 |-> Max(0, unpad(c1y, g.padY, g.scale)),
      x2 |-> Min(g.W, unpad(c2x, g.padX, g.scale)),
      y2 |-> Min(g.H, unpad(c2y, g.padY, g.scale)) ]

\* The map callback of postprocessOutput for one kept candidate: the corners
\* are box.x - box.w / 2 and so on.
remapBox(box, g) ==
    remapCorners(NumSub(NumInt(box.x), NumHalf(NumInt(box.w))),
                 NumSub(NumInt(box.y), NumHalf(NumInt(box.h))),
                 NumAdd(NumInt(box.x), NumHalf(NumInt(box.w))),
                 NumAdd(NumInt(box.y), NumHalf(NumInt(box.h))), g)

\* Where the letterbox puts original coordinate v of an axis of length size:
\* the image is resized to newSize along that axis and copied at offset pad.
project(v, size, newSize, pad) == NumAdd(NumInt(pad), NumDiv(v * newSize, size))

\* An original box projected into model space and remapped back.
roundTrip(b, g) ==
    remapCorners(project(b.x1, g.W, g.newW, g.padX), project(b.y1, g.H, g.newH, g.padY),
                 project(b.x2, g.W, g.newW, g.padX), project(b.y2, g.H, g.newH, g.padY), g)

----------------------------------------------------------------------------
(* Decoding the inference result (pickDetOutput, parseYoloOnnxOutputCorrect, *)
(* postprocessOutput).  A tensor is its dims and its flat data; data[k] of   *)
(* the code is data[k + 1] here.                                             *)

CONFIDENCE_THRESHOLD == 100
IOU_THRESHOLD == 450

NoTensor == [absent |-> TRUE, dims |-> <<>>, data |-> <<>>]
Tensor(dims, data) == [absent |-> FALSE, dims |-> dims, data |-> data]

\* dims.length === 3 && dims[0] === 1 && dims[k] === expectedChannels
\* (k = 1, 2 of the code is position 2, 3 here)
channelsAt(dims, k, expectedChannels) ==
    Len(dims) = 3 /\ dims[1] = 1 /\ dims[k + 1] = expectedChannels

\* The first output of the run, in key order, with the expected channel count
\* on either axis; the first output when none has it; undefined when the run
\* returned no output at all.
pickDetOutput(results, numClasses) ==
    LET expectedChannels == 4 + numClasses
        at == FirstIndex([i \in 1..Len(results) |->
                            \/ channelsAt(results[i].dims, 1, expectedChannels)
                            \/ channelsAt(results[i].dims, 2, expectedChannels)])
    IN IF at # 0 THEN results[at]
       ELSE IF results = <<>> THEN NoTensor ELSE results[1]

\* Any three-dimensional shape taken for an empty anchor list.
layoutLenient(dims, expectedChannels) ==
    [ok |-> TRUE, channelFirst |-> FALSE, N |-> 0]

\* The if / else if / else on dims: channel-first is tested first.
layout(dims, expectedChannels) ==
    IF channelsAt(dims, 1, expectedChannels)
    THEN [ok |-> TRUE, channelFirst |-> TRUE, N |-> dims[3]]
    ELSE IF channelsAt(dims, 2, expectedChannels)
    THEN [ok |-> TRUE, channelFirst |-> FALSE, N |-> dims[2]]
    ELSE [ok |-> FALSE, channelFirst |-> FALSE, N |-> 0]

\* Every output read as [1, N, channels], whatever its dims say.
dataIndexChannelLast(ch, i, N, channelFirst, expectedChannels) ==
    i * expectedChannels + ch

\* Index into data of channel ch of anchor i (both from 0).
dataIndex(ch, i, N, channelFirst, expectedChannels) ==
    IF channelFirst THEN ch * N + i ELSE i * expectedChannels + ch

\* The loop over the classes from c on: a strictly greater score replaces the
\* best so far; bestClass = -1 stands for bestScore = -Infinity.
RECURSIVE bestFrom(_, _, _)
bestFrom(scores, c, best) ==
    IF c >= Len(scores) THEN best
    ELSE bestFrom(scores, c + 1,
                  IF best.bestClass = -1 \/ scores[c + 1] > best.bestScore
                  THEN [bestScore |-> scores[c + 1], bestClass |-> c]
                  ELSE best)

\* One pass of the loop over anchors: the values read for anchor i.
anchorAt(data, i, l, numClasses) ==
    LET at(ch) == data[dataIndex(ch, i, l.N, l.channelFirst, 4 + numClasses) + 1]
        best == bestFrom([c \in 1..numClasses |-> at(4 + c - 1)], 0,
                         [bestScore |-> 0, bestClass |-> -1])
    IN [x |-> at(0), y |-> at(1), w |-> at(2), h |-> at(3),
        classId |-> best.bestClass, confidence |-> best.bestScore]

\* continue on w <= 0 || h <= 0; push when bestScore > 0
anchorKept(a) == ~(a.w <= 0 \/ a.h <= 0) /\ a.classId # -1 /\ a.confidence > 0

\* threw: the call ended in an exception (the shape error, or the TypeError of
\* reading .data of undefined); results is what it returned otherwise.
parseYoloOnnxOutputCorrect(tensor, numClasses) ==
    IF tensor.absent THEN [threw |-> TRUE, results |-> <<>>]
    ELSE LET l == layout(tensor.dims, 4 + numClasses)
             anchors == [i \in 1..l.N |-> anchorAt(tensor.data, i - 1, l, numClasses)]
         IN IF ~l.ok THEN [threw |-> TRUE, results |-> <<>>]
            ELSE [threw |-> FALSE,
                  results |-> byConfidence(SelectSeq(anchors, anchorKept))]

\* parse, threshold, suppression and the map back to image coordinates
postprocessOutput(tensor, g, classNames) ==
    LET parsed == parseYoloOnnxOutputCorrect(tensor, Len(classNames))
        filtered == SelectSeq(parsed.results, LAMBDA p : p.confidence > CONFIDENCE_THRESHOLD)
        nmsBoxes == applyNMS(filtered, IOU_THRESHOLD)
    IN [threw |-> parsed.threw,
        parsed |-> parsed.results,
        detections |-> IF parsed.threw THEN <<>>
                       ELSE [i \in 1..Len(nmsBoxes) |->
                               [label |-> classNames[nmsBoxes[i].classId + 1],
                                score |-> nmsBoxes[i].confidence,
                                box |-> remapBox(nmsBoxes[i], g)]]]

----------------------------------------------------------------------------
(* The refinement call as a state machine: the caller builds a result one  *)
(* detection at a time, then calls refineDocumentAnalysis once.            *)

\* Bound: the number of detections of an input result.
MaxDets == 3

\* Side of the square frame the detection pool is laid out in.
FrameSide == 10

FullBox == MkBox(0, 0, FrameSide, FrameSide)
\* Covers 40% of the frame; as a bar it is too tall.
BandBox == MkBox(0, 0, FrameSide, 4)
\* Zero-area box.
PointBox == MkBox(3, 3, 3, 3)
\* Full-width strip at the top edge, at the bottom edge, and a narrow top strip.
TopStrip == MkBox(0, 0, FrameSide, 1)
BottomStrip == MkBox(0, FrameSide - 1, FrameSide, FrameSide)
NarrowStrip == MkBox(0, 0, FrameSide \div 2, 1)
\* Sticks out of the frame on every side.
WideBox == MkBox(-2, -2, FrameSide + 2, FrameSide + 2)

\* A detection of score s thousandths: the stored score is the double of s/1000.
Det(l, s, b) == [label |-> l, score |-> Num(s), box |-> b, meta |-> NoMeta]

\* The detections an input is built from.
DetPool ==
    { Det("Screenshot", 600, BandBox), Det("Screenshot", 600, FullBox),
      Det("Document", 600, BandBox), Det("Document", 520, FullBox),
      Det("Receipt", 600, BandBox), Det("Receipt", 600, PointBox),
      Det(TOP_BAR, 500, TopStrip), Det(TOP_BAR, 500, NarrowStrip),
      Det(BOTTOM_BAR, 500, BottomStrip) }

NoSignals == [present |-> FALSE, colors |-> "", hasDiagnostics |-> FALSE, diagnostics |-> <<>>]
PriorSignals == [present |-> TRUE, colors |-> "rgb(248,248,248)", hasDiagnostics |-> TRUE,
                 diagnostics |-> <<"prior">>]

\* The secondary fields of an input vary one at a time around a base profile.
BaseProfile ==
    [width |-> FrameSide, height |-> FrameSide, aspectRatio |-> 100,
     confidence |-> Some(Num(550)), isPartial |-> FALSE, primaryBox |-> NoBox,
     signals |-> NoSignals, keepDiagnostics |-> TRUE]

Profiles ==
    { BaseProfile,
      [BaseProfile EXCEPT !.width = 0],
      [BaseProfile EXCEPT !.aspectRatio = 50],
      [BaseProfile EXCEPT !.confidence = Absent],
      [BaseProfile EXCEPT !.isPartial = TRUE],
      [BaseProfile EXCEPT !.primaryBox = WideBox],
      [BaseProfile EXCEPT !.primaryBox = WideBox, !.isPartial = TRUE],
      [BaseProfile EXCEPT !.signals = PriorSignals],
      [BaseProfile EXCEPT !.keepDiagnostics = FALSE] }

MkInput(p, type) ==
    [meta |-> [width |-> p.width, height |-> p.height, aspectRatio |-> p.aspectRatio],
     summary |-> [documentType |-> type, confidence |-> p.confidence,
                  primaryBox |-> p.primaryBox, isPartial |-> p.isPartial],
     detections |-> <<>>,
     signals |-> p.signals]

NoOutput == [meta |-> [width |-> 0, height |-> 0, aspectRatio |-> 0],
             summary |-> [documentType |-> UNKNOWN, confidence |-> Absent,
                          primaryBox |-> NoBox, isPartial |-> FALSE],
             detections |-> <<>>, signals |-> NoSignals]

NoNms == [boxes |-> <<>>, threshold |-> 0, array |-> <<>>, selected |-> <<>>]
NoCand == [x |-> 0, y |-> 0, w |-> 0, h |-> 0]
NoGeo == [g |-> letterbox(1, 1, 1), cand |-> NoCand, orig |-> NoBox]

NoPick == [type |-> UNKNOWN, conf |-> Num(0), at |-> 0, notes |-> <<>>]
NoAgain == [out |-> NoOutput, notes |-> <<>>, others |-> 0]
NoDecode == [results |-> <<>>, classNames |-> <<>>, g |-> letterbox(1, 1, 1), status |-> "idle",
             picked |-> NoTensor, parsed |-> <<>>, detections |-> <<>>]
DecodeIdle == decode = NoDecode
NoAnalyzer == [pc |-> <<>>, yoloSession |-> 0, creates |-> 0, inferences |-> <<>>,
               fileExists |-> TRUE, loadable |-> TRUE]
AnalyzerIdle == analyzer = NoAnalyzer

Idle == /\ nmsIn = NoNms /\ nmsOut = <<>> /\ nmsOut2 = <<>>
        /\ geo = NoGeo /\ remapped = NoBox
        /\ again = NoAgain /\ DecodeIdle /\ mainPick = NoPick
        /\ AnalyzerIdle /\ moduleTol = DEFAULT_TOL

InitFrom(profiles) ==
    /\ phase = "init"
    /\ \E p \in profiles, type \in DocumentType, retypeOk \in BOOLEAN :
          /\ input = MkInput(p, type)
          /\ options = [tol |-> NoTol, allowRetype |-> retypeOk,
                         keepDiagnostics |-> p.keepDiagnostics]
    /\ before = input
    /\ output = NoOutput
    /\ notes = <<>>
    /\ Idle

Init == InitFrom(Profiles)

\* The caller appends one more detection, different from those the list holds,
\* to the result it is about to refine.
AddDetection ==
    /\ phase = "init"
    /\ Len(input.detections) < MaxDets
    /\ \E d \in DetPool \ SeqToSet(input.detections) :
          input' = [input EXCEPT !.detections = Append(@, d)]
    /\ before' = input'
    /\ UNCHANGED <<phase, options, output, notes, nmsIn, nmsOut, nmsOut2, geo, remapped,
                 again, decode, mainPick, analyzer, moduleTol>>

Returned(r) ==
    /\ output' = r.out
    /\ notes' = r.notes
    /\ input' = ApplyStores(input, r.stores)
    /\ moduleTol' = tolAfter(options)

\* out = refineDocumentAnalysis(input, options)
Refine ==
    /\ phase = "init"
    /\ \E r \in {refineDocumentAnalysis(input, options)} : Returned(r)
    /\ phase' = "refined"
    /\ UNCHANGED <<options, before, nmsIn, nmsOut, nmsOut2, geo, remapped,
                 again, decode, mainPick, analyzer>>

Next == AddDetection \/ Refine

Spec == Init /\ [][Next]_vars

\* The options of a call made between the two compared calls: the same flags,
\* and a classMargin of 0, under which no two candidates are ever tied.
OtherOptions(opts) == [opts EXCEPT !.tol = [NoTol EXCEPT !.classMargin = Some(0)]]

\* Between the two calls the caller refines the same object once under other
\* tolerances and discards what is returned.
RefineOther ==
    /\ phase = "refined"
    /\ again.others = 0
    /\ \E r \in {refineDocumentAnalysis(input, OtherOptions(options))} :
          input' = ApplyStores(input, r.stores)
    /\ moduleTol' = tolAfter(OtherOptions(options))
    /\ again' = [again EXCEPT !.others = 1]
    /\ UNCHANGED <<phase, options, output, notes, before, nmsIn, nmsOut, nmsOut2, geo,
                   remapped, decode, mainPick, analyzer>>

\* A second call with the same options on the object the first call was handed,
\* as the calls made so far left it and the module.
RefineAgain ==
    /\ phase = "refined"
    /\ \E r \in {refineDocumentAnalysis(input, options)} :
          /\ again' = [again EXCEPT !.out = r.out, !.notes = r.notes]
          /\ input' = ApplyStores(input, r.stores)
    /\ moduleTol' = tolAfter(options)
    /\ phase' = "refined2"
    /\ UNCHANGED <<options, output, notes, before, nmsIn, nmsOut, nmsOut2, geo, remapped,
                   decode, mainPick, analyzer>>

NextRepeat == AddDetection \/ Refine \/ RefineOther \/ RefineAgain

\* The results the repeated call is made on: the base profile, a stored
\* primary box that sticks out of the frame, and signals that already hold
\* diagnostics.
RepeatProfiles ==
    { BaseProfile,
      [BaseProfile EXCEPT !.primaryBox = WideBox],
      [BaseProfile EXCEPT !.signals = PriorSignals] }

InitRepeat == InitFrom(RepeatProfiles)

SpecRepeat == InitRepeat /\ [][NextRepeat]_vars

\* A second call with the same options on the result the first call returned.
RefineOutput ==
    /\ phase = "refined"
    /\ \E r \in {refineDocumentAnalysis(output, options)} :
          again' = [again EXCEPT !.out = r.out, !.notes = r.notes]
    /\ moduleTol' = tolAfter(options)
    /\ phase' = "reapplied"
    /\ UNCHANGED <<input, options, output, notes, before, nmsIn, nmsOut, nmsOut2, geo,
                   remapped, decode, mainPick, analyzer>>

NextReapply == AddDetection \/ Refine \/ RefineOutput

SpecReapply == Init /\ [][NextReapply]_vars

\* Longer inputs: the caller starts from a result that already holds
\* detections and appends more until it holds MaxDets + 1.  The starting
\* results are a full-frame Screenshot; a strong Document on the band under a stored primary
\* box; a Document one column short of a frame twice as wide as high; and
\* four results on which a sum or a difference of the code is one rounding
\* away from the number it is compared with: 0.3 + 0.3 against 0.4 + 0.2,
\* 0.3 + 0.5 * 0.3 against 0.4 + 0.5 * 0.1, 0.18 + 0.5 * 0.3 against
\* 0.39 - 0.06, and 0.47 - 0.40 against 0.07; and a result whose Receipt
\* scores 0.55 + 0.05 = 0.6000000000000001, one unit in the last place above
\* its Document at 0.6 on the same box (the sums of stage 7 with IoU 1 are
\* then equal doubles).
\* A Receipt on the band whose score is the sum 0.55 + 0.05.
OneUp == [Det("Receipt", 550, BandBox) EXCEPT !.score = NumAdd(@, Num(50))]
NearFullBox == MkBox(0, 0, 2 * FrameSide - 1, FrameSide)
Rows(n) == MkBox(0, 0, FrameSide, n)
Seeds ==
    { [p |-> BaseProfile, ds |-> <<Det("Screenshot", 600, FullBox)>>],
      [p |-> [BaseProfile EXCEPT !.primaryBox = WideBox],
       ds |-> <<Det("Document", 900, BandBox)>>],
      [p |-> [BaseProfile EXCEPT !.width = 2 * FrameSide, !.aspectRatio = 200],
       ds |-> <<Det("Document", 600, NearFullBox)>>],
      [p |-> [BaseProfile EXCEPT !.primaryBox = FullBox],
       ds |-> <<Det("Document", 300, Rows(3)), Det("Receipt", 400, Rows(2))>>],
      [p |-> [BaseProfile EXCEPT !.primaryBox = FullBox],
       ds |-> <<Det("Document", 300, Rows(3)), Det("Document", 400, Rows(1))>>],
      [p |-> [BaseProfile EXCEPT !.confidence = Some(Num(390))],
       ds |-> <<Det("Screenshot", 900, BandBox), Det("Document", 180, MkBox(0, 0, 3, 4))>>],
      [p |-> BaseProfile,
       ds |-> <<Det("Receipt", 470, Rows(4)), Det("Document", 400, FullBox)>>],
      [p |-> [BaseProfile EXCEPT !.confidence = Some(Num(390))],
       ds |-> <<Det("Screenshot", 900, BandBox),
                OneUp,
                Det("Document", 600, BandBox)>>] }

InitSeeded ==
    /\ phase = "init"
    /\ \E seed \in Seeds, type \in DocumentType, retypeOk \in BOOLEAN :
          /\ input = [MkInput(seed.p, type) EXCEPT !.detections = seed.ds]
          /\ options = [tol |-> NoTol, allowRetype |-> retypeOk,
                         keepDiagnostics |-> seed.p.keepDiagnostics]
    /\ before = input
    /\ output = NoOutput
    /\ notes = <<>>
    /\ Idle

AddMore ==
    /\ phase = "init"
    /\ Len(input.detections) < MaxDets + 1
    /\ \E d \in DetPool \ SeqToSet(input.detections) :
          input' = [input EXCEPT !.detections = Append(@, d)]
    /\ before' = input'
    /\ UNCHANGED <<phase, options, output, notes, nmsIn, nmsOut, nmsOut2, geo, remapped,
                   again, decode, mainPick, analyzer, moduleTol>>

NextSeeded == AddMore \/ Refine

SpecSeeded == InitSeeded /\ [][NextSeeded]_vars

\* Main-type selection on its own: the result is built from detections whose
\* scores lie 0.01 to 0.18 apart, two of them 0.07 apart (0.60 and 0.53, whose
\* difference is the double 0.06999999999999995) and two 0.05 apart (0.52 and
\* 0.57, where 0.52 + 0.05 is the double 0.5700000000000001); a Receipt at
\* 0.70 leads every other candidate by classMargin or more, boosted or not,
\* except a boosted Screenshot at 0.60.  Then pickMainType is applied to it.
PickPool ==
    { Det("Screenshot", 520, FullBox), Det("Screenshot", 600, FullBox),
      Det("Document", 530, FullBox), Det("Document", 600, FullBox),
      Det("Receipt", 570, FullBox), Det("Receipt", 600, FullBox),
      Det("Receipt", 700, FullBox),
      Det(TOP_BAR, 500, TopStrip), Det(BOTTOM_BAR, 500, BottomStrip) }

InitPick ==
    /\ phase = "init"
    /\ \E p \in {BaseProfile, [BaseProfile EXCEPT !.aspectRatio = 50],
                  [BaseProfile EXCEPT !.confidence = Absent]},
          type \in DocumentType :
          /\ input = MkInput(p, type)
          /\ options = [tol |-> NoTol, allowRetype |-> TRUE, keepDiagnostics |-> TRUE]
    /\ before = input
    /\ output = NoOutput
    /\ notes = <<>>
    /\ Idle

AddScored ==
    /\ phase = "init"
    /\ Len(input.detections) < MaxDets + 1
    /\ \E d \in PickPool \ SeqToSet(input.detections) :
          input' = [input EXCEPT !.detections = Append(@, d)]
    /\ before' = input'
    /\ UNCHANGED <<phase, options, output, notes, nmsIn, nmsOut, nmsOut2, geo, remapped,
                   again, decode, mainPick, analyzer, moduleTol>>

\* pickMainType(input, cfg.tol, notes), as refineDocumentAnalysis calls it
PickMain ==
    /\ phase = "init"
    /\ mainPick' = pickMainType(input, buildConfig(options).tol)
    /\ moduleTol' = tolAfter(options)
    /\ phase' = "picked"
    /\ UNCHANGED <<input, options, output, notes, before, nmsIn, nmsOut, nmsOut2, geo,
                   remapped, again, decode, analyzer>>

NextPick == AddScored \/ PickMain

SpecPick == InitPick /\ [][NextPick]_vars

----------------------------------------------------------------------------
(* Suppression as a state machine: the candidate list is built, applyNMS   *)
(* runs on it, and then runs again on its own output.                      *)

\* Bound: the number of candidates handed to applyNMS.
MaxCands == 3

Cand(x, w, c, s) == [x |-> x, y |-> 2, w |-> w, h |-> 2, classId |-> c, confidence |-> s]

\* Overlapping boxes of two classes with equal and unequal confidences: the
\* pairwise IoUs are 1/3, 1/2, 3/5 and 1.
CandPool == {Cand(x, w, c, s) : x \in {2, 3}, w \in {2, 4}, c \in {0, 1}, s \in {300, 500}}

\* IOU_THRESHOLD: the default 0.45 and an override above 1/2.
Thresholds == {450, 550}

RefineIdle ==
    /\ input = MkInput(BaseProfile, UNKNOWN)
    /\ options = [tol |-> NoTol, allowRetype |-> TRUE, keepDiagnostics |-> TRUE]
    /\ before = input /\ output = NoOutput /\ notes = <<>>
    /\ again = NoAgain /\ mainPick = NoPick
    /\ AnalyzerIdle /\ moduleTol = DEFAULT_TOL

InitNMS ==
    /\ phase = "init"
    /\ \E t \in Thresholds : nmsIn = [NoNms EXCEPT !.threshold = t]
    /\ nmsOut = <<>> /\ nmsOut2 = <<>>
    /\ geo = NoGeo /\ remapped = NoBox
    /\ RefineIdle /\ DecodeIdle

AddCandidate ==
    /\ phase = "init"
    /\ Len(nmsIn.boxes) < MaxCands
    /\ \E c \in CandPool :
          nmsIn' = [nmsIn EXCEPT !.boxes = Append(@, c), !.array = Append(@, c)]
    /\ UNCHANGED <<phase, input, options, output, notes, before, nmsOut, nmsOut2, geo, remapped,
                 again, decode, mainPick, analyzer, moduleTol>>

\* selected = applyNMS(array): nmsOut is the value returned, nmsIn.selected the
\* returned array object, nmsIn.array the argument array after the call.
RunNMS ==
    /\ phase = "init"
    /\ nmsOut' = applyNMS(nmsIn.array, nmsIn.threshold)
    /\ nmsIn' = [nmsIn EXCEPT !.array = leftInArgument(@), !.selected = nmsOut']
    /\ phase' = "nms"
    /\ UNCHANGED <<input, options, output, notes, before, nmsOut2, geo, remapped,
                 again, decode, mainPick, analyzer, moduleTol>>

\* applyNMS on its own output, same threshold
RunNMSAgain ==
    /\ phase = "nms"
    /\ nmsOut2' = applyNMS(nmsIn.selected, nmsIn.threshold)
    /\ nmsIn' = [nmsIn EXCEPT !.selected = leftInArgument(@)]
    /\ phase' = "nms2"
    /\ UNCHANGED <<input, options, output, notes, before, nmsOut, geo, remapped,
                 again, decode, mainPick, analyzer, moduleTol>>

NextNMS == AddCandidate \/ RunNMS \/ RunNMSAgain

SpecNMS == InitNMS /\ [][NextNMS]_vars

----------------------------------------------------------------------------
(* Remapping as a state machine: an image is letterboxed; then either a    *)
(* kept candidate is remapped, or an original box is projected into model  *)
(* space and remapped back.                                                *)

\* Image sides and target sizes of the letterbox.
ImageSides == {4, 8, 19, 29, 40, 49}
TargetSizes == {8, 10}

InitRemap ==
    /\ phase = "init"
    /\ \E W \in ImageSides, H \in ImageSides, T \in TargetSizes :
          \* the resize needs a target of at least one pixel each way
          /\ letterbox(W, H, T).newW >= 1 /\ letterbox(W, H, T).newH >= 1
          /\ geo = [g |-> letterbox(W, H, T), cand |-> NoCand, orig |-> NoBox]
    /\ remapped = NoBox
    /\ nmsIn = NoNms /\ nmsOut = <<>> /\ nmsOut2 = <<>>
    /\ RefineIdle /\ DecodeIdle

\* One kept candidate anywhere on the T x T canvas goes through the map callback.
Remap ==
    /\ phase = "init"
    /\ \E x \in 0..geo.g.T, y \in {0, geo.g.T \div 2, geo.g.T}, w \in {1, 2}, h \in {2} :
          /\ geo' = [geo EXCEPT !.cand = [x |-> x, y |-> y, w |-> w, h |-> h]]
          /\ remapped' = remapBox([x |-> x, y |-> y, w |-> w, h |-> h], geo.g)
    /\ phase' = "remapped"
    /\ UNCHANGED <<input, options, output, notes, before, nmsIn, nmsOut, nmsOut2,
                 again, decode, mainPick, analyzer, moduleTol>>

\* An integer box inside the image, projected and remapped back.
RoundTrip ==
    /\ phase = "init"
    /\ \E x1 \in {0, geo.g.W \div 2}, x2 \in {geo.g.W \div 2 + 1, geo.g.W},
          y1 \in {0, geo.g.H \div 2}, y2 \in {geo.g.H \div 2 + 1, geo.g.H} :
          /\ geo' = [geo EXCEPT !.orig = MkBox(x1, y1, x2, y2)]
          /\ remapped' = roundTrip(MkBox(x1, y1, x2, y2), geo.g)
    /\ phase' = "roundtrip"
    /\ UNCHANGED <<input, options, output, notes, before, nmsIn, nmsOut, nmsOut2,
                 again, decode, mainPick, analyzer, moduleTol>>

NextRemap == Remap \/ RoundTrip

SpecRemap == InitRemap /\ [][NextRemap]_vars

----------------------------------------------------------------------------
(* Decoding as a state machine: the class list may be read again from      *)
(* classes.txt, the inference run returns its outputs one by one in key    *)
(* order, then detectObjects picks one and decodes it.                     *)

\* Bound: the number of outputs of an inference run.
MaxOutputs == 2

\* The class lists a detector is constructed with (never empty: the
\* constructor throws on an empty list).
ClassLists == {<<"Document">>, <<"Document", "Receipt">>}

\* Anchors in model space, with one score per class of the longest list: a
\* class-0 box, an overlapping class-1 box, a zero-width box, a box whose
\* scores are not positive.
Anchor(x, y, w, h, scores) == [x |-> x, y |-> y, w |-> w, h |-> h, scores |-> scores]
AnchorPool ==
    { Anchor(4, 4, 2, 2, <<600, 300>>), Anchor(4, 4, 4, 2, <<300, 700>>),
      Anchor(4, 4, 0, 2, <<800, 800>>), Anchor(2, 2, 2, 2, <<0, -100>>) }
AnchorCounts == {1, 2}

\* The channels of an anchor for numClasses classes.
Row(a, numClasses) == <<a.x, a.y, a.w, a.h>> \o SubSeq(a.scores, 1, numClasses)

\* anchors laid out as [1, N, C] and as [1, C, N], under the dims given
ChannelLast(dims, anchors, numClasses) ==
    Tensor(dims, [k \in 1..(Len(anchors) * (4 + numClasses)) |->
                    Row(anchors[(k - 1) \div (4 + numClasses) + 1], numClasses)
                       [((k - 1) % (4 + numClasses)) + 1]])
ChannelFirst(dims, anchors, numClasses) ==
    Tensor(dims, [k \in 1..(Len(anchors) * (4 + numClasses)) |->
                    Row(anchors[((k - 1) % Len(anchors)) + 1], numClasses)
                       [(k - 1) \div Len(anchors) + 1]])

AnchorLists == UNION {[1..n -> AnchorPool] : n \in AnchorCounts}

\* An anchor list as long as an anchor has channels (N = 4 + numClasses): both
\* layouts then have the dims [1, N, N].
SquareLists(numClasses) ==
    LET cycle == << Anchor(4, 4, 2, 2, <<600, 300>>), Anchor(4, 4, 4, 2, <<300, 700>>),
                    Anchor(4, 4, 0, 2, <<800, 800>>), Anchor(2, 2, 2, 2, <<0, -100>>) >>
    IN {[i \in 1..(4 + numClasses) |-> cycle[((i - 1) % 4) + 1]]}
LogicalLists(numClasses) == AnchorLists \cup SquareLists(numClasses)

\* Outputs of the two accepted shapes, and outputs of other shapes holding the
\* same data: two dimensions, four dimensions, a batch of 2, a channel count
\* one short.
GoodTensors(numClasses) ==
    {ChannelLast(<<1, Len(a), 4 + numClasses>>, a, numClasses) : a \in LogicalLists(numClasses)}
    \cup {ChannelFirst(<<1, 4 + numClasses, Len(a)>>, a, numClasses) : a \in LogicalLists(numClasses)}
OtherTensors(numClasses) ==
    LET a == <<Anchor(4, 4, 2, 2, <<600, 300>>)>>
    IN { ChannelLast(<<1, 4 + numClasses>>, a, numClasses),
         ChannelLast(<<1, 1, 4 + numClasses, 1>>, a, numClasses),
         ChannelLast(<<2, 1, 4 + numClasses>>, a, numClasses),
         ChannelFirst(<<4 + numClasses, 1, 1>>, a, numClasses),
         ChannelLast(<<1, 2, 3 + numClasses>>, a \o a, numClasses) }
TensorPool(numClasses) == GoodTensors(numClasses) \cup OtherTensors(numClasses)

\* classes.txt beside the model file.  A text is a sequence of pieces: names,
\* blanks and line ends.
LineEnds == {"\n", "\r\n"}
Blanks == {" "}
NoFile == [exists |-> FALSE, readable |-> FALSE, text |-> <<>>]
LockedFile == [exists |-> TRUE, readable |-> FALSE, text |-> <<>>]
TextFile(text) == [exists |-> TRUE, readable |-> TRUE, text |-> text]
\* No file, a file that cannot be read, two names with a blank before the
\* second, empty lines only, and one name followed by a blank line.
ClassFiles ==
    { NoFile, LockedFile,
      TextFile(<<"Document", "\n", " ", "Receipt", "\n">>),
      TextFile(<<"\n", "\n">>),
      TextFile(<<"Document", "\r\n", " ", "\n">>) }

\* String.split(/\r?\n/): the lines of a text, line being the pieces read
\* since the last line end.
RECURSIVE splitLines(_, _)
splitLines(text, line) ==
    IF text = <<>> THEN <<line>>
    ELSE IF Head(text) \in LineEnds THEN <<line>> \o splitLines(Tail(text), <<>>)
    ELSE splitLines(Tail(text), Append(line, Head(text)))

\* String.trim: blanks at either end dropped, and the line as one string.
RECURSIVE trimStart(_)
trimStart(line) ==
    IF line # <<>> /\ Head(line) \in Blanks THEN trimStart(Tail(line)) ELSE line
RECURSIVE trimEnd(_)
trimEnd(line) ==
    IF line # <<>> /\ line[Len(line)] \in Blanks
    THEN trimEnd(SubSeq(line, 1, Len(line) - 1)) ELSE line
RECURSIVE joined(_)
joined(line) == IF line = <<>> THEN "" ELSE Head(line) \o joined(Tail(line))
trim(line) == joined(trimEnd(trimStart(line)))

\* split(/\r?\n/).map(s => s.trim()).filter(Boolean)
linesOf(text) ==
    LET split == splitLines(text, <<>>)
    IN SelectSeq([i \in 1..Len(split) |-> trim(split[i])], LAMBDA l : l # "")

\* CLASS_NAMES after the call: unchanged when the file is missing or reading
\* it throws, else the trimmed non-empty lines of the file (none, possibly).
classNamesAfter(names, file) ==
    IF ~file.exists THEN names
    ELSE IF ~file.readable THEN names
    ELSE linesOf(file.text)

\* The detector is constructed with one of the class lists; the image is 8 by
\* 4 and the model input 8 by 8, so that the letterbox pads above and below.
InitDecode ==
    /\ phase = "init"
    /\ \E names \in ClassLists :
          decode = [NoDecode EXCEPT !.classNames = names, !.g = letterbox(8, 4, 8)]
    /\ nmsIn = NoNms /\ nmsOut = <<>> /\ nmsOut2 = <<>>
    /\ geo = NoGeo /\ remapped = NoBox
    /\ RefineIdle

\* detector.detectAndReadClassesTxt(), called on the constructed detector
\* before the run has returned: what a run returns does not depend on the
\* class list, and once it has returned detectObjects decodes without
\* another await.
detectAndReadClassesTxt ==
    /\ phase = "init"
    /\ decode.results = <<>>
    /\ \E file \in ClassFiles :
          decode' = [decode EXCEPT !.classNames = classNamesAfter(@, file)]
    /\ UNCHANGED <<phase, input, options, output, notes, before, nmsIn, nmsOut, nmsOut2,
                   geo, remapped, again, mainPick, analyzer, moduleTol>>

\* One more output of the run.
AddOutput ==
    /\ phase = "init"
    /\ Len(decode.results) < MaxOutputs
    /\ \E t \in TensorPool(Len(decode.classNames)) :
          decode' = [decode EXCEPT !.results = Append(@, t)]
    /\ UNCHANGED <<phase, input, options, output, notes, before, nmsIn, nmsOut, nmsOut2,
                   geo, remapped, again, mainPick, analyzer, moduleTol>>

\* detectObjects from pickDetOutput on: the call either throws or returns
\* its detections.
Decode ==
    /\ phase = "init"
    /\ \E picked \in {pickDetOutput(decode.results, Len(decode.classNames))} :
       \E r \in {postprocessOutput(picked, decode.g, decode.classNames)} :
          decode' = [decode EXCEPT !.status = IF r.threw THEN "error" ELSE "ok",
                                   !.picked = picked,
                                   !.parsed = r.parsed,
                                   !.detections = r.detections]
    /\ phase' = "decoded"
    /\ UNCHANGED <<input, options, output, notes, before, nmsIn, nmsOut, nmsOut2,
                   geo, remapped, again, mainPick, analyzer, moduleTol>>

NextDecode == detectAndReadClassesTxt \/ AddOutput \/ Decode

SpecDecode == InitDecode /\ [][NextDecode]_vars

----------------------------------------------------------------------------
(* DocumentAnalyzer.analyze as a state machine: calls are made on one      *)
(* analyzer whose detector starts without a session; each call advances    *)
(* from one await to the next, and the calls interleave at the awaits.     *)
(* pc[c] names the await call c is suspended at, or how it ended.          *)

\* Bound: the number of analyze calls made on the analyzer.
MaxCalls == 3

Rest == <<input, options, output, notes, before, nmsIn, nmsOut, nmsOut2, geo, remapped,
          again, decode, mainPick, moduleTol>>

InitAnalyze ==
    /\ phase = "init"
    /\ \E present \in BOOLEAN, good \in BOOLEAN :
          analyzer = [NoAnalyzer EXCEPT !.fileExists = present, !.loadable = good]
    /\ input = MkInput(BaseProfile, UNKNOWN)
    /\ options = [tol |-> NoTol, allowRetype |-> TRUE, keepDiagnostics |-> TRUE]
    /\ before = input /\ output = NoOutput /\ notes = <<>>
    /\ again = NoAgain /\ mainPick = NoPick /\ DecodeIdle /\ moduleTol = DEFAULT_TOL
    /\ nmsIn = NoNms /\ nmsOut = <<>> /\ nmsOut2 = <<>>
    /\ geo = NoGeo /\ remapped = NoBox

isReady == analyzer.yoloSession # 0

At(c, where) == c \in 1..Len(analyzer.pc) /\ analyzer.pc[c] = where
Goto(c, where) == [analyzer EXCEPT !.pc[c] = where]

\* analyze(src): the detector is not ready, so initialize() is called and
\* runs to its await of fs.access; or it is ready and the call goes on to
\* await getImageMetadata.
Analyze ==
    /\ Len(analyzer.pc) < MaxCalls
    /\ analyzer' = [analyzer EXCEPT !.pc = Append(@, IF ~isReady THEN "access" ELSE "metadata")]
    /\ UNCHANGED <<phase, Rest>>

\* fs.access settled: initialize throws when the model file is missing, else
\* it calls InferenceSession.create and awaits it.
AccessDone(c) ==
    /\ At(c, "access")
    /\ analyzer' = IF analyzer.fileExists
                   THEN [Goto(c, "create") EXCEPT !.creates = @ + 1]
                   ELSE Goto(c, "rejected")
    /\ UNCHANGED <<phase, Rest>>

\* InferenceSession.create settled: the session is stored in yoloSession (the
\* session is named by the call that created it), or the error is rethrown.
CreateDone(c) ==
    /\ At(c, "create")
    /\ analyzer' = IF analyzer.loadable
                   THEN [Goto(c, "metadata") EXCEPT !.yoloSession = c]
                   ELSE Goto(c, "rejected")
    /\ UNCHANGED <<phase, Rest>>

\* The outcomes of an awaited call: it resolves, or it rejects and analyze,
\* which catches nothing, rejects with it.
Settles == {"resolves", "rejects"}

\* getImageMetadata settled: it rejects when sharp cannot read the source or
\* reports a width or height of 0.
MetadataDone(c) ==
    /\ At(c, "metadata")
    /\ \E how \in Settles :
          analyzer' = IF how = "resolves" THEN Goto(c, "colors") ELSE Goto(c, "rejected")
    /\ UNCHANGED <<phase, Rest>>

\* analyzeImageColors settled
ColorsDone(c) ==
    /\ At(c, "colors")
    /\ \E how \in Settles :
          analyzer' = IF how = "resolves" THEN Goto(c, "edges") ELSE Goto(c, "rejected")
    /\ UNCHANGED <<phase, Rest>>

\* detectEdges settled: when it resolves detectObjects is called, throws
\* without a session, else awaits preprocessImage.
EdgesDone(c) ==
    /\ At(c, "edges")
    /\ \E how \in Settles :
          analyzer' = IF how = "rejects" \/ analyzer.yoloSession = 0
                      THEN Goto(c, "rejected")
                      ELSE Goto(c, "preprocess")
    /\ UNCHANGED <<phase, Rest>>

\* preprocessImage settled: when it resolves yoloSession.run(feeds) is called
\* on the session stored at this moment; when it rejects run is not called.
PreprocessDone(c) ==
    /\ At(c, "preprocess")
    /\ \E how \in Settles :
          analyzer' = IF how = "resolves"
                      THEN [Goto(c, "run") EXCEPT
                              !.inferences = Append(@, [call |-> c,
                                                        session |-> analyzer.yoloSession])]
                      ELSE Goto(c, "rejected")
    /\ UNCHANGED <<phase, Rest>>

\* run settled: the rest of detectObjects and of analyze is synchronous.  The
\* call rejects when run rejects, and when decoding what run returned throws
\* (no output, or the picked output of an unexpected shape).
RunDone(c) ==
    /\ At(c, "run")
    /\ \E how \in Settles, decodes \in BOOLEAN :
          analyzer' = IF how = "resolves" /\ decodes THEN Goto(c, "resolved")
                      ELSE Goto(c, "rejected")
    /\ UNCHANGED <<phase, Rest>>

NextAnalyze ==
    \/ Analyze
    \/ \E c \in 1..MaxCalls :
          \/ AccessDone(c) \/ CreateDone(c) \/ MetadataDone(c) \/ ColorsDone(c)
          \/ EdgesDone(c) \/ PreprocessDone(c) \/ RunDone(c)

SpecAnalyze == InitAnalyze /\ [][NextAnalyze]_vars

----------------------------------------------------------------------------
(* Properties of the refinement call *)

Refined == phase = "refined"
Cfg == buildConfig(options)
OutType == output.summary.documentType
OutBox == output.summary.primaryBox

\* The label a document type is detected under.
TypeName(t) ==
    IF t = RECEIPT THEN "Receipt"
    ELSE IF t = DOCUMENT THEN "Document"
    ELSE IF t = SCREENSHOT THEN "Screenshot"
    ELSE "Unknown"

\* Some returned detection carries the label of the returned type and has
\* IoU >= 0.90 with the returned primary box.
PrimaryReflected ==
    /\ OutBox # NoBox
    /\ \E i \in 1..Len(output.detections) :
          /\ output.detections[i].label = TypeName(OutType)
          /\ IouGe(iou(output.detections[i].box, OutBox), 900)

\* C1 as stated: every refinement output, whatever its type and primary box,
\* holds a detection labelled as summary.documentType with IoU >= 0.90 against
\* summary.primaryBox.
C1_EveryOutputReflectsPrimary == Refined => PrimaryReflected

\* C1 (amended): every refinement output whose type is Receipt, Document or
\* Screenshot and whose primaryBox exists with positive area holds a detection
\* labelled as that type with IoU >= 0.90 against the primaryBox.
C1_PrimaryDetection ==
    (Refined /\ OutType # UNKNOWN /\ OutBox # NoBox /\ area(OutBox) > 0)
        => PrimaryReflected

\* The synthetic primary detection was appended although the input already
\* held a detection of the final label.
C1_Witness ==
    /\ Refined /\ OutType # UNKNOWN /\ OutBox # NoBox /\ area(OutBox) > 0
    /\ hasLabel(before.detections, TypeName(OutType))
    /\ \E i \in 1..Len(output.detections) :
          output.detections[i].meta.reason = "matches_primaryBox"

\* C2: after refineDocumentAnalysis returns, the caller's input (detections,
\* summary, signals) is structurally equal to what it was before the call.
C2_InputUnchanged == Refined => input = before

\* A call that retyped, clamped a primary box the input supplied and annotated
\* a validated bar.
C2_Witness ==
    /\ Refined
    /\ before.summary.primaryBox # NoBox
    /\ OutBox # before.summary.primaryBox
    /\ OutType # before.summary.documentType
    /\ output.summary.isPartial # before.summary.isPartial
    /\ \E i \in 1..Len(output.detections) : output.detections[i].meta.validated

\* C7: with allowRetype = false the returned documentType is the input's.
C7_NoRetype ==
    (Refined /\ ~options.allowRetype) => OutType = before.summary.documentType

\* Retyping was refused although the selection disagreed with the input type
\* and both Document and Receipt detections were present.
C7_Witness ==
    /\ Refined /\ ~options.allowRetype
    /\ pickMainType(before, Cfg.tol).type # before.summary.documentType
    /\ hasLabel(before.detections, "Document")
    /\ hasLabel(before.detections, "Receipt")

EmptyUnknownInput ==
    /\ before.detections = <<>>
    /\ before.summary.documentType = UNKNOWN
    /\ before.summary.primaryBox = NoBox

FrameBox == MkBox(0, 0, before.meta.width, before.meta.height)

\* C8: an input with no detections, type Unknown and no primaryBox yields the
\* full frame as primaryBox, exactly one detection (Document, score 0, full
\* frame, synthetic, source fallback) and isPartial = false.
C8_EmptyFallback ==
    (Refined /\ EmptyUnknownInput) =>
        /\ OutBox = FrameBox
        /\ Len(output.detections) = 1
        /\ output.detections[1].label = "Document"
        /\ output.detections[1].score = Num(0)
        /\ output.detections[1].box = FrameBox
        /\ output.detections[1].meta.synthetic
        /\ output.detections[1].meta.source = "fallback"
        /\ output.summary.isPartial = FALSE

\* The empty Unknown input came in flagged partial.
C8_Witness == Refined /\ EmptyUnknownInput /\ before.summary.isPartial

----------------------------------------------------------------------------
(* Properties of the Screenshot stage *)

\* The working type when the Screenshot stage is reached: the target of the
\* retype the trace records, the input's type when it records none.
RetypedTo(t) ==
    \E i \in 1..Len(notes) :
        notes[i] = "retype: " \o before.summary.documentType \o " -> " \o t
Retyped == \E t \in DocumentType : RetypedTo(t)
AtScreenshotStage ==
    IF Retyped THEN RetypedTo(SCREENSHOT) ELSE before.summary.documentType = SCREENSHOT

ScreenshotAt == bestByScore(before.detections, {"Screenshot"})
Container == IF ScreenshotAt # 0 THEN before.detections[ScreenshotAt].box ELSE FrameBox
ContainerW == Container.x2 - Container.x1
ContainerH == Container.y2 - Container.y1
ContainerCover == <<area(Container), before.meta.width * before.meta.height>>

AltAt == bestByScore(before.detections, {"Document", "Receipt"})
Alt == before.detections[AltAt]
AltType == IF Alt.label = "Document" THEN DOCUMENT ELSE RECEIPT

TopAt == FirstIndex([i \in 1..Len(before.detections) |-> before.detections[i].label = TOP_BAR])
BotAt == FirstIndex([i \in 1..Len(before.detections) |-> before.detections[i].label = BOTTOM_BAR])

\* The three tests on the intersection of a bar with the container: width,
\* height, and centre inside the band at the bar's edge, the products and sums
\* being doubles.
PassesBarTests(bar) ==
    LET i == intersect(bar.box, Container)
        band == NumMulInt(ContainerH, Num(Cfg.tol.topBottomBandFrac))
        centre == NumHalf(NumInt(i.y1 + i.y2))
    IN /\ NumGe(NumInt(i.x2 - i.x1), NumMulInt(ContainerW, Num(Cfg.tol.minBarWidthFrac)))
       /\ NumGe(NumMulInt(ContainerH, Num(Cfg.tol.maxBarHeightFrac)), NumInt(i.y2 - i.y1))
       /\ IF bar.label = TOP_BAR
          THEN NumGe(NumAdd(NumInt(Container.y1), band), centre)
          ELSE NumGe(centre, NumSub(NumInt(Container.y2), band))

\* The same with an intersection of positive area required.
BarValid(bar) == area(intersect(bar.box, Container)) > 0 /\ PassesBarTests(bar)

TopValid == TopAt # 0 /\ BarValid(before.detections[TopAt])
BotValid == BotAt # 0 /\ BarValid(before.detections[BotAt])

\* Base confidence (the best Screenshot score after a retype, else the input's
\* confidence, else the best Screenshot score or 0) plus the bar and coverage
\* bonuses.
\* The sum is the double got by adding the bonuses in that order.
AcceptanceScore ==
    LET base == IF Retyped THEN before.detections[ScreenshotAt].score
                ELSE OrElse(before.summary.confidence,
                            IF ScreenshotAt # 0 THEN before.detections[ScreenshotAt].score
                            ELSE Num(0))
        bar == Num(Cfg.tol.screenshotBarBonus)
        withTop == IF TopValid THEN NumAdd(base, bar) ELSE base
        withBot == IF BotValid THEN NumAdd(withTop, bar) ELSE withTop
        withBoth == IF TopValid /\ BotValid
                    THEN NumAdd(withBot, Num(Cfg.tol.screenshotBothBarsBonus)) ELSE withBot
    IN IF CoverGe(ContainerCover, Cfg.tol.screenshotMinCoverFrac)
       THEN NumAdd(withBoth, Num(Cfg.tol.screenshotCoverBonus)) ELSE withBoth

\* coverage < screenshotMinCoverFrac, an alternative exists, and its raw score
\* plus half its IoU with the container reaches acceptance - altCandidateMaxDelta
SwitchCondition ==
    /\ CoverLt(ContainerCover, Cfg.tol.screenshotMinCoverFrac)
    /\ AltAt # 0
    /\ LET q == iou(Alt.box, Container)
       IN NumGe(NumAdd(Alt.score, NumHalf(NumDiv(q[1], q[2]))),
                NumSub(AcceptanceScore, Num(Cfg.tol.altCandidateMaxDelta)))

Switched ==
    \E i \in 1..Len(notes) :
        notes[i] \in {"switch: Screenshot -> " \o DOCUMENT, "switch: Screenshot -> " \o RECEIPT}

NoBarsOut == \A i \in 1..Len(output.detections) : ~isBar(output.detections[i])

\* The alternative is a Receipt and the Document-vs-Receipt stage, run on the
\* alternative's box, prefers Document.
DocumentOverrides ==
    /\ AltType = RECEIPT
    /\ hasLabel(before.detections, "Document")
    /\ docWins(maxScore(before.detections, "Document"),
               maxIou(before.detections, "Document", Alt.box),
               maxScore(before.detections, "Receipt"),
               maxIou(before.detections, "Receipt", Alt.box))

\* C9 as stated: at the Screenshot stage with retyping allowed, refinement
\* switches iff coverage < screenshotMinCoverFrac, an alternative exists and its
\* score reaches acceptance - altCandidateMaxDelta; on a switch the returned
\* summary has the alternative's type, raw score and box, and no bars are returned.
C9_SwitchAdoptsAlternative ==
    (Refined /\ options.allowRetype /\ AtScreenshotStage) =>
        /\ Switched <=> SwitchCondition
        /\ Switched =>
              /\ OutType = AltType
              /\ output.summary.confidence = Some(Alt.score)
              /\ OutBox = Alt.box
              /\ NoBarsOut

\* C9 (amended): the switch happens iff the stated condition holds; on a switch
\* no bars are returned, and the returned type, confidence and primaryBox are
\* the alternative's type, raw score and box, except that a Receipt
\* alternative which the Document-vs-Receipt stage overrules is returned as
\* Document with the best Document score as confidence.
C9_SwitchToAlternative ==
    (Refined /\ options.allowRetype /\ AtScreenshotStage) =>
        /\ Switched <=> SwitchCondition
        /\ Switched =>
              /\ NoBarsOut
              /\ IF DocumentOverrides
                 THEN /\ OutType = DOCUMENT
                      /\ output.summary.confidence =
                            Some(maxScore(before.detections, "Document"))
                 ELSE /\ OutType = AltType
                      /\ output.summary.confidence = Some(Alt.score)
                      /\ OutBox = Alt.box

\* A switch decided by the IoU term (the raw score alone is below the
\* threshold), with a bar in the input.
C9_Witness ==
    /\ Refined /\ options.allowRetype /\ AtScreenshotStage
    /\ Switched /\ OutType = AltType /\ OutBox = Alt.box
    /\ NumLt(Alt.score, NumSub(AcceptanceScore, Num(Cfg.tol.altCandidateMaxDelta)))
    /\ TopAt # 0

Core(d) == [label |-> d.label, score |-> d.score, box |-> d.box]
CoreOf(dets) == [i \in 1..Len(dets) |-> Core(dets[i])]
Count(s, v) == Cardinality({i \in 1..Len(s) : s[i] = v})
SameElements(s, t) ==
    /\ Len(s) = Len(t)
    /\ \A i \in 1..Len(s) : Count(s, s[i]) = Count(t, s[i])

InBars == SelectSeq(before.detections, isBar)
OutBars == SelectSeq(output.detections, isBar)

DropNotes(bar) ==
    {"drop " \o bar.label \o ": " \o why :
        why \in {"outside primaryBox", "too narrow", "too tall", "vertical position invalid"}}

\* A drop note for the bar is in the returned diagnostics.
DropTraced(bar) ==
    \E i \in 1..Len(output.signals.diagnostics) :
        output.signals.diagnostics[i] \in DropNotes(bar)

\* C10 as stated: when the result stays Screenshot, the returned bars are
\* exactly the input bars passing the width, height and band tests, boxes
\* unchanged, and every rejected bar is absent with a note in diagnostics when
\* keepDiagnostics is on.
C10_AllPassingBarsKept ==
    (Refined /\ OutType = SCREENSHOT) =>
        /\ SameElements(CoreOf(OutBars), CoreOf(SelectSeq(InBars, PassesBarTests)))
        /\ \A i \in 1..Len(InBars) :
              (~PassesBarTests(InBars[i]) /\ options.keepDiagnostics)
                  => DropTraced(InBars[i])

\* C10 (amended): when the result stays Screenshot, the returned bars are
\* exactly the first Top status bar and the first Bottom nav bar of the input
\* whose intersection with the container has positive area and passes the
\* width, height and band tests, boxes unchanged; such a first bar that is
\* rejected is absent with a note in diagnostics when keepDiagnostics is on;
\* later bars of the same label are never returned.
C10_FirstBarsValidated ==
    (Refined /\ OutType = SCREENSHOT) =>
        /\ SameElements(CoreOf(OutBars),
                        (IF TopValid THEN <<Core(before.detections[TopAt])>> ELSE <<>>)
                        \o (IF BotValid THEN <<Core(before.detections[BotAt])>> ELSE <<>>))
        /\ (TopAt # 0 /\ ~TopValid /\ options.keepDiagnostics)
              => DropTraced(before.detections[TopAt])
        /\ (BotAt # 0 /\ ~BotValid /\ options.keepDiagnostics)
              => DropTraced(before.detections[BotAt])

\* The first top bar is too narrow and dropped with its note, a later top bar
\* that would pass is not returned, and the bottom bar is kept.
C10_Witness ==
    /\ Refined /\ OutType = SCREENSHOT /\ options.keepDiagnostics
    /\ TopAt # 0 /\ ~TopValid /\ BotValid
    /\ "drop Top status bar: too narrow" \in SeqToSet(output.signals.diagnostics)
    /\ \E j \in (TopAt + 1)..Len(before.detections) :
          before.detections[j].label = TOP_BAR /\ BarValid(before.detections[j])
    /\ Len(OutBars) = 1

----------------------------------------------------------------------------
(* Properties of suppression and of the remap *)

\* C3: applyNMS applied to its own output with the same threshold returns the
\* same candidates in the same order as the first call returned.
C3_Idempotent == phase = "nms2" => nmsOut2 = nmsOut

\* Something was suppressed and two different survivors tie on confidence.
C3_Witness ==
    /\ phase = "nms2"
    /\ Len(nmsOut) < Len(nmsIn.boxes)
    /\ Len(nmsOut) >= 2
    /\ nmsOut[1].confidence = nmsOut[2].confidence
    /\ nmsOut[1] # nmsOut[2]

Suppressed(v) == Count(nmsIn.boxes, v) > Count(nmsOut, v)

\* C4: every candidate applyNMS removes has the classId of a kept candidate it
\* overlaps with IoU >= threshold, nothing is added, and candidates with
\* pairwise distinct classIds are all kept.
C4_ClassIsolation ==
    phase = "nms" =>
        /\ \A i \in 1..Len(nmsOut) : Count(nmsOut, nmsOut[i]) <= Count(nmsIn.boxes, nmsOut[i])
        /\ \A i \in 1..Len(nmsIn.boxes) :
              Suppressed(nmsIn.boxes[i]) =>
                  \E k \in 1..Len(nmsOut) :
                      /\ nmsOut[k].classId = nmsIn.boxes[i].classId
                      /\ IouGe(calculateIoU(nmsOut[k], nmsIn.boxes[i]), nmsIn.threshold)
        /\ (\A i, j \in 1..Len(nmsIn.boxes) :
                i # j => nmsIn.boxes[i].classId # nmsIn.boxes[j].classId)
              => SameElements(nmsOut, nmsIn.boxes)

\* Two candidates of different classes overlapping above the threshold are
\* both kept while a same-class candidate is suppressed.
C4_Witness ==
    /\ phase = "nms"
    /\ Len(nmsOut) < Len(nmsIn.boxes)
    /\ \E i, j \in 1..Len(nmsOut) :
          /\ nmsOut[i].classId # nmsOut[j].classId
          /\ IouGe(calculateIoU(nmsOut[i], nmsOut[j]), nmsIn.threshold)

\* C5: a box inside the image, projected into model space with the letterbox
\* geometry and remapped back, has every coordinate within 1 pixel of the
\* original.
C5_RoundTripWithinOne ==
    phase = "roundtrip" =>
        /\ Abs(remapped.x1 - geo.orig.x1) <= 1
        /\ Abs(remapped.y1 - geo.orig.y1) <= 1
        /\ Abs(remapped.x2 - geo.orig.x2) <= 1
        /\ Abs(remapped.y2 - geo.orig.y2) <= 1

\* C6: every remapped box satisfies 0 <= x1 <= x2 <= width and
\* 0 <= y1 <= y2 <= height of the original image.
C6_BoxInBounds ==
    phase = "remapped" =>
        /\ 0 <= remapped.x1 /\ remapped.x1 <= remapped.x2 /\ remapped.x2 <= geo.g.W
        /\ 0 <= remapped.y1 /\ remapped.y1 <= remapped.y2 /\ remapped.y2 <= geo.g.H

----------------------------------------------------------------------------
(* Properties of repeated calls and of the returned diagnostics *)

\* C11: a call of refineDocumentAnalysis made after earlier calls - the first
\* call, and possibly a call on the same object under other tolerances -
\* with the options and on the object of the first call returns what the
\* first call returned: the same summary, the same detections in the same
\* order and the same diagnostics.  The earlier calls leave behind neither a
\* changed argument nor a changed DEFAULT_TOL.
C11_Deterministic ==
    phase = "refined2" => again.out = output /\ again.notes = notes

\* The repeated call came after a call under other tolerances that returned
\* another type than the first call; it retyped, wrote at least three notes
\* and returned another number of detections than it was given.
C11_Witness ==
    /\ phase = "refined2"
    /\ again.others = 1
    /\ refineDocumentAnalysis(before, OtherOptions(options)).out.summary.documentType
          # output.summary.documentType
    /\ input = before
    /\ moduleTol = DEFAULT_TOL
    /\ again.out.summary.documentType # before.summary.documentType
    /\ Len(again.out.detections) # Len(before.detections)
    /\ Len(again.notes) >= 3
    /\ again.out.signals.diagnostics # before.signals.diagnostics

\* The note of the last step, written after every stage's notes.
UpsertNote == "detections: inserted synthetic main-class box to match primaryBox"
\* The note of the retype stage.
RetypeNotes == {"retype: " \o f \o " -> " \o t : f, t \in DocumentType}
\* Notes of the stages that follow the Screenshot stage, in stage order.
LateNotes ==
    << {"resolve doc/receipt conflict -> prefer " \o l : l \in {"Document", "Receipt"}},
       {"primaryBox: replaced by best " \o l \o " (low IoU with old)" :
            l \in {"Document", "Receipt", "Screenshot"}},
       {"primaryBox: synthesized full-frame for Unknown",
        "synth detection: Document full-frame for Unknown"},
       {UpsertNote} >>
\* The stage a note belongs to: 0 for the retype note, 1 to 4 for the later
\* stages, -1 for the notes of the stages the order check leaves aside.
StageRank(note) ==
    IF note \in RetypeNotes THEN 0
    ELSE IF \E a \in 1..Len(LateNotes) : note \in LateNotes[a]
    THEN CHOOSE a \in 1..Len(LateNotes) : note \in LateNotes[a]
    ELSE -1
StageOrdered(ns) ==
    LET rank == [i \in 1..Len(ns) |-> StageRank(ns[i])]
    IN \A i, j \in 1..Len(ns) : (rank[i] >= 0 /\ rank[i] < rank[j]) => i < j

\* C13: with keepDiagnostics the returned signals.diagnostics is the input's
\* list (empty when the input has none) followed by the notes of this call in
\* stage order, and the other signals fields are the input's; without
\* keepDiagnostics the returned signals are the input's signals.
C13_DiagnosticsAppended ==
    Refined =>
       IF options.keepDiagnostics
       THEN /\ output.signals.diagnostics = before.signals.diagnostics \o notes
            /\ output.signals.colors = before.signals.colors
            /\ output.signals.hasDiagnostics
            /\ StageOrdered(notes)
       ELSE output.signals = before.signals

\* An input that carries a diagnostic of its own, and a call that wrote notes
\* in the retype stage and in later stages.
C13_Witness ==
    /\ Refined
    /\ options.keepDiagnostics
    /\ before.signals.diagnostics = <<"prior">>
    /\ Len(output.signals.diagnostics) >= 4
    /\ \E i \in 1..Len(notes) : notes[i] \in RetypeNotes
    /\ \E i \in 1..Len(notes), a \in 1..Len(LateNotes) : notes[i] \in LateNotes[a]
    /\ output.signals.diagnostics[1] = "prior"

----------------------------------------------------------------------------
(* Properties of main-type selection *)

Picked == phase = "picked"
BarPresent == hasLabel(before.detections, TOP_BAR) \/ hasLabel(before.detections, BOTTOM_BAR)
\* The comparison score of a per-label best candidate, and the candidates
\* ranked by it (equal scores in order of first appearance).
RawScore(e) == before.detections[e.at].score
ComparisonScore(e) ==
    IF e.lbl = "Screenshot" /\ BarPresent THEN NumAdd(RawScore(e), Num(50))
    ELSE RawScore(e)
PerLabelBest == byClassEntries(before.detections)
Ranked ==
    unkeyed(SortDescNum([n \in 1..Len(PerLabelBest) |->
                           [k |-> ComparisonScore(PerLabelBest[n]), v |-> PerLabelBest[n]]]))
RankIn(ranked, lbl) == FirstIndex([n \in 1..Len(ranked) |-> ranked[n].lbl = lbl])
\* The candidate the tie-break rules select from the ranking when they apply
\* (tie), the top-ranked candidate otherwise.
SelectedIn(ranked, tie) ==
    IF tie /\ BarPresent
    THEN IF RankIn(ranked, "Screenshot") # 0 THEN RankIn(ranked, "Screenshot") ELSE 1
    ELSE IF tie /\ before.meta.aspectRatio >= 65 /\ RankIn(ranked, "Document") # 0
    THEN RankIn(ranked, "Document")
    ELSE 1
TieInComparisonScore(ranked) ==
    /\ Len(ranked) >= 2
    /\ NumLt(NumAbs(NumSub(ComparisonScore(ranked[1]), ComparisonScore(ranked[2]))),
             Num(Cfg.tol.classMargin))
TieInRawScore(ranked) ==
    /\ Len(ranked) >= 2
    /\ NumLt(NumAbs(NumSub(RawScore(ranked[1]), RawScore(ranked[2]))),
             Num(Cfg.tol.classMargin))

\* C15: the tie-break applies exactly when the two top-ranked candidates
\* differ by less than classMargin in the boosted comparison score; the
\* selection is then Screenshot if a bar exists, else Document if the aspect
\* ratio is at least 0.65 and Document is a candidate, else the top-ranked
\* candidate, and it is the top-ranked candidate when the tie-break does not
\* apply.
C15_TieBreakOnComparisonScore ==
    Picked =>
        LET ranked == Ranked
        IN Len(ranked) >= 1 =>
              mainPick.at = ranked[SelectedIn(ranked, TieInComparisonScore(ranked))].at

\* The notes pickMainType writes when its tie-break prefers a candidate.
BarsNote == "tie-breaker: bars present -> prefer Screenshot"
A4Note == "tie-breaker: AR~A4 & no bars -> prefer Document"
PickNoted(note) == \E i \in 1..Len(mainPick.notes) : mainPick.notes[i] = note
TieBroken == PickNoted(BarsNote) \/ PickNoted(A4Note)

\* C16: the candidates are ordered by stored score, the Screenshot candidate
\* by its score plus 0.05 exactly when a bar detection is present and no other
\* candidate by more than its score: the selection is the first of that
\* ordering whenever no tie-break note is written, and the candidate the note
\* names (the first of the ordering if there is none) when one is; the
\* confidence returned is the stored score of the selected detection, boosted
\* or not.
C16_BoostComparisonOnly ==
    Picked =>
        LET ranked == Ranked
        IN Len(ranked) >= 1 =>
              /\ ~TieBroken => mainPick.at = ranked[1].at
              /\ PickNoted(BarsNote) =>
                    BarPresent /\ mainPick.at = ranked[SelectedIn(ranked, TRUE)].at
              /\ PickNoted(A4Note) =>
                    ~BarPresent /\ mainPick.at = ranked[SelectedIn(ranked, TRUE)].at
              /\ mainPick.conf = before.detections[mainPick.at].score
              /\ mainPick.type = preferred(before.detections[mainPick.at].label)

\* Document 0.60, Receipt 0.57, Screenshot 0.52 and a bar: the boost ranks
\* Screenshot second (0.52 + 0.05 is the double 0.5700000000000001, above
\* 0.57), no tie-break note is written, and Document is returned at 0.60
\* (ordered by stored score Receipt would stand second, 0.03 behind).
C16_Witness ==
    /\ Picked
    /\ BarPresent
    /\ Len(Ranked) = 3
    /\ Ranked[2].lbl = "Screenshot"
    /\ NumLt(RawScore(Ranked[2]), RawScore(Ranked[3]))
    /\ NumGt(ComparisonScore(Ranked[2]), RawScore(Ranked[3]))
    /\ ~TieBroken
    /\ mainPick.type = DOCUMENT
    /\ mainPick.conf = Num(600)

----------------------------------------------------------------------------
(* Properties of the later stages *)

HasNote(set) == \E i \in 1..Len(notes) : notes[i] \in set
\* The Document-vs-Receipt stage changed the type; the primary-box correction
\* replaced the box.
Resolved == HasNote(LateNotes[1])
Replaced == HasNote(LateNotes[2])
\* The primary box of a kept Screenshot.
StayBox ==
    IF ScreenshotAt = 0 \/ CoverLt(ContainerCover, Cfg.tol.screenshotMinCoverFrac)
    THEN FrameBox ELSE Container
\* The validated bar is in the returned detections, coordinates unchanged.
Appended(bar) ==
    \E i \in 1..Len(output.detections) :
        /\ Core(output.detections[i]) = Core(bar)
        /\ output.detections[i].meta.validated

\* C17: when the Screenshot stage is reached with type Screenshot and does not
\* switch, it sets the confidence to base + screenshotBarBonus per valid bar +
\* screenshotBothBarsBonus for two valid bars + screenshotCoverBonus for
\* coverage >= screenshotMinCoverFrac, sets primaryBox to the full frame when
\* there is no Screenshot detection or the best one covers less than
\* screenshotMinCoverFrac and to the best Screenshot box otherwise, and appends
\* the valid bars.  The confidence and the box are observed in the returned
\* summary wherever no later stage wrote them.
C17_StayScreenshot ==
    (Refined /\ AtScreenshotStage /\ ~Switched) =>
        LET top == TopValid
            bot == BotValid
            resolved == Resolved
        IN /\ ~resolved => OutType = SCREENSHOT /\ output.summary.confidence = Some(AcceptanceScore)
           /\ ~resolved /\ ~Replaced => OutBox = StayBox
           /\ top => Appended(before.detections[TopAt])
           /\ bot => Appended(before.detections[BotAt])
           /\ Len(OutBars) = (IF top THEN 1 ELSE 0) + (IF bot THEN 1 ELSE 0)

\* A kept Screenshot with both bars valid and full coverage: every bonus is
\* earned and the container is the primary box.
C17_Witness ==
    /\ Refined /\ AtScreenshotStage /\ ~Switched /\ ~Resolved /\ ~Replaced
    /\ TopValid /\ BotValid
    /\ ScreenshotAt # 0
    /\ output.summary.confidence = Some(AcceptanceScore)
    /\ AcceptanceScore =
          NumAdd(NumAdd(NumAdd(NumAdd(before.detections[ScreenshotAt].score,
                                      Num(Cfg.tol.screenshotBarBonus)),
                               Num(Cfg.tol.screenshotBarBonus)),
                        Num(Cfg.tol.screenshotBothBarsBonus)),
                 Num(Cfg.tol.screenshotCoverBonus))
    /\ OutBox = Container
    /\ Len(OutBars) = 2

\* The primary box the Document-vs-Receipt stage sees: the Screenshot stage's
\* when that stage ran, else the input's (clamped to the frame), else the box
\* adopted from the selected detection.
PrimaryAtResolution ==
    IF AtScreenshotStage THEN (IF Switched THEN Alt.box ELSE StayBox)
    ELSE clampBox(IF before.summary.primaryBox # NoBox THEN before.summary.primaryBox
                  ELSE before.detections[pickMainType(before, Cfg.tol).at].box,
                  before.meta.width, before.meta.height)
\* max score + max IoU against the primary box over the detections labelled
\* lbl, as the double sum
LabelSum(lbl) ==
    LET pb == PrimaryAtResolution
        q == maxIou(before.detections, lbl, pb)
    IN NumAdd(maxScore(before.detections, lbl), NumDiv(q[1], q[2]))
\* lbl won over loser: no detection of the loser is returned, the returned
\* type is lbl's, and the confidence is lbl's best score if the stage changed
\* the type.
Won(lbl, loser) ==
    /\ ~hasLabel(output.detections, loser)
    /\ hasLabel(output.detections, lbl)
    /\ OutType = preferred(lbl)
    /\ Resolved => output.summary.confidence = Some(maxScore(before.detections, lbl))
    /\ Resolved <=> HasNote({"resolve doc/receipt conflict -> prefer " \o lbl})

\* C18: when the input holds both Document and Receipt detections and
\* retyping is allowed, a primary box exists at the Document-vs-Receipt stage
\* and the label with the higher (max score + max IoU against that box) wins:
\* no detection of the other label is returned, the returned type is the
\* winner's, and the confidence is the winner's max score if the stage changed
\* the type, whatever the type was before.
C18_DocumentVsReceipt ==
    (Refined /\ options.allowRetype
       /\ hasLabel(before.detections, "Document") /\ hasLabel(before.detections, "Receipt")) =>
        LET sumDoc == LabelSum("Document")
            sumRec == LabelSum("Receipt")
        IN /\ NumGt(sumDoc, sumRec) => Won("Document", "Receipt")
           /\ NumGt(sumRec, sumDoc) => Won("Receipt", "Document")
           /\ Won("Document", "Receipt") \/ Won("Receipt", "Document")

\* A kept Screenshot retyped by the stage: the Document scores less than the
\* Receipt but overlaps the primary box more, and wins.
C18_Witness ==
    /\ Refined /\ options.allowRetype
    /\ AtScreenshotStage /\ ~Switched
    /\ hasLabel(before.detections, "Document") /\ hasLabel(before.detections, "Receipt")
    /\ NumLt(maxScore(before.detections, "Document"), maxScore(before.detections, "Receipt"))
    /\ NumGt(LabelSum("Document"), LabelSum("Receipt"))
    /\ Resolved
    /\ OutType = DOCUMENT
    /\ output.summary.confidence = Some(maxScore(before.detections, "Document"))

\* A primary box exists when the correction stage is reached.
HasPrimaryAtCorrection ==
    \/ AtScreenshotStage
    \/ before.summary.primaryBox # NoBox
    \/ \E i \in 1..Len(before.detections) : preferredHas(before.detections[i].label)
\* The detections matching the returned type, by index in the input, and the
\* box the correction stage starts from.
Matching == {i \in 1..Len(before.detections) : before.detections[i].label = TypeName(OutType)}
OldBox == PrimaryAtResolution
OldIou(i) == iou(before.detections[i].box, OldBox)
\* raw score + 0.5 * IoU with the old box, as the double sum
MatchKey(i) ==
    NumAdd(before.detections[i].score, NumHalf(NumDiv(OldIou(i)[1], OldIou(i)[2])))
\* The matching detection of highest key, the earliest of equals.
BestMatch ==
    CHOOSE i \in Matching :
        /\ \A j \in Matching : NumGe(MatchKey(i), MatchKey(j))
        /\ \A j \in Matching : j < i => NumGt(MatchKey(i), MatchKey(j))

\* C19 as stated: the primary box is replaced only if no detection matching
\* the current type has IoU >= 0.5 with it; the new box is that of the
\* matching detection of highest (raw score + 0.5 * IoU with the old box);
\* otherwise, and whenever retyping is not allowed, the box is unchanged.
C19_ReplacedOnlyIfNoneOverlaps ==
    (Refined /\ HasPrimaryAtCorrection) =>
        /\ Replaced => /\ options.allowRetype
                       /\ \A i \in Matching : IouLt(OldIou(i), 500)
                       /\ OutBox = before.detections[BestMatch].box
        /\ ~Replaced => OutBox = OldBox

\* C19 (amended): the primary box is replaced exactly when retyping is
\* allowed, a detection matches the current type, and the matching detection
\* of highest (raw score + 0.5 * IoU with the old box) has IoU < 0.5 with the
\* old box; the new box is that detection's; otherwise the box is unchanged.
C19_ReplacedByBestMatch ==
    (Refined /\ HasPrimaryAtCorrection) =>
        /\ Replaced <=> /\ options.allowRetype
                        /\ Matching # {}
                        /\ IouLt(OldIou(BestMatch), 500)
        /\ Replaced => OutBox = before.detections[BestMatch].box
        /\ ~Replaced => OutBox = OldBox

\* The box is replaced by the best-ranked Document although another Document
\* overlaps the old box by at least half.
C19_Witness ==
    /\ Refined /\ HasPrimaryAtCorrection /\ Replaced
    /\ Cardinality(Matching) >= 2
    /\ \E i \in Matching : IouGe(OldIou(i), 500)
    /\ OutBox = before.detections[BestMatch].box
    /\ OutBox # OldBox

\* The synthetic detection of the Unknown fallback.
FallbackDocument ==
    [label |-> "Document", score |-> Num(0), box |-> FrameBox,
     meta |-> [synthetic |-> TRUE, source |-> "fallback",
               reason |-> "unknown_full_frame", validated |-> FALSE]]
\* A Document or Screenshot detection of the input has IoU >= 0.95 with the
\* full frame.
FrameCovered ==
    \E i \in 1..Len(before.detections) :
        /\ before.detections[i].label \in {"Document", "Screenshot"}
        /\ IouGe(iou(before.detections[i].box, FrameBox), 950)

\* C20: a returned result of type Unknown has isPartial = false and a
\* primaryBox (the full frame if there was none), and the synthetic full-frame
\* Document (score 0, synthetic, source fallback) is its first detection unless
\* a Document or Screenshot detection of the input has IoU >= 0.95 with the
\* full frame, an IoU of exactly 0.95 counting as covered.
C20_UnknownFallback ==
    (Refined /\ OutType = UNKNOWN) =>
        /\ ~output.summary.isPartial
        /\ OutBox = (IF HasPrimaryAtCorrection THEN OldBox ELSE FrameBox)
        /\ ~FrameCovered => /\ output.detections # <<>>
                            /\ output.detections[1] = FallbackDocument
        /\ FrameCovered => \A i \in 1..Len(output.detections) :
                                output.detections[i] # FallbackDocument

HasBarOut == \E i \in 1..Len(output.detections) : isBar(output.detections[i])

\* C14: a returned result whose documentType is not Screenshot holds no
\* detection labelled 'Top status bar' or 'Bottom nav bar'.
C14_BarsOnlyInScreenshot ==
    Refined /\ OutType # SCREENSHOT => ~HasBarOut

----------------------------------------------------------------------------
(* Properties of decoding *)

Decoded == phase = "decoded"
ExpectedChannels == 4 + Len(decode.classNames)
\* dims is [1, 4 + numClasses, N] or [1, N, 4 + numClasses]
ShapeAccepted(t) ==
    /\ ~t.absent
    /\ Len(t.dims) = 3
    /\ t.dims[1] = 1
    /\ t.dims[2] = ExpectedChannels \/ t.dims[3] = ExpectedChannels

\* C12: decoding an output whose dims are neither [1, 4 + numClasses, N] nor
\* [1, N, 4 + numClasses] ends in an error and yields no detections; this
\* covers the run none of whose outputs has an accepted shape, where the first
\* output is the one picked.
C12_ShapeMismatchIsError ==
    Decoded =>
       /\ ~ShapeAccepted(decode.picked) => decode.status = "error" /\ decode.detections = <<>>
       /\ (\A i \in 1..Len(decode.results) : ~ShapeAccepted(decode.results[i]))
             => /\ decode.status = "error"
                /\ decode.results # <<>> => decode.picked = decode.results[1]

\* Two outputs, neither of an accepted shape, the first (holding a positive
\* score) picked and refused.
C12_Witness ==
    /\ Decoded
    /\ Len(decode.results) = 2
    /\ \A i \in 1..2 : ~ShapeAccepted(decode.results[i])
    /\ decode.results[1] # decode.results[2]
    /\ decode.picked = decode.results[1]
    /\ \E k \in 1..Len(decode.picked.data) : decode.picked.data[k] > CONFIDENCE_THRESHOLD
    /\ decode.status = "error"

\* The reference rule for a list of logical anchors: the anchors with w > 0,
\* h > 0 and a positive maximum class score, each with the class of that
\* maximum and the score itself.
MaxClassScore(a, numClasses) ==
    CHOOSE v \in {a.scores[c] : c \in 1..numClasses} :
        \A c \in 1..numClasses : a.scores[c] <= v
RefKept(a, numClasses) ==
    a.w > 0 /\ a.h > 0 /\ numClasses > 0 /\ MaxClassScore(a, numClasses) > 0
RefCandidates(anchors, numClasses) ==
    {[x |-> a.x, y |-> a.y, w |-> a.w, h |-> a.h, classId |-> c - 1,
      confidence |-> a.scores[c]] :
        <<a, c>> \in {ac \in SeqToSet(anchors) \X (1..numClasses) :
                        /\ RefKept(ac[1], numClasses)
                        /\ ac[1].scores[ac[2]] = MaxClassScore(ac[1], numClasses)}}
Descending(cands) ==
    \A i \in 1..(Len(cands) - 1) : cands[i].confidence >= cands[i + 1].confidence
\* cands is what the reference rule gives for anchors: one candidate per kept
\* anchor, each a reference candidate, in descending score order.
MatchesReference(cands, anchors, numClasses) ==
    /\ Len(cands) = Len(SelectSeq(anchors, LAMBDA a : RefKept(a, numClasses)))
    /\ \A a \in SeqToSet(anchors) :
          RefKept(a, numClasses) =>
              Count([i \in 1..Len(cands) |-> <<cands[i].x, cands[i].y, cands[i].w, cands[i].h>>],
                    <<a.x, a.y, a.w, a.h>>)
              >= Count(anchors, a)
    /\ \A i \in 1..Len(cands) : cands[i] \in RefCandidates(anchors, numClasses)
    /\ Descending(cands)

NumClasses == Len(decode.classNames)
\* The logical anchors an output presents when its data is laid out as
\* [1, channels, N] (channelFirst) or as [1, N, channels].
AnchorsIn(t, N, channelFirst) ==
    [i \in 1..N |->
        LET at(ch) == IF channelFirst THEN t.data[ch * N + i]
                      ELSE t.data[(i - 1) * ExpectedChannels + ch + 1]
        IN Anchor(at(0), at(1), at(2), at(3), [c \in 1..NumClasses |-> at(3 + c)])]
PresentsChannelFirst(t) == Len(t.dims) = 3 /\ t.dims[1] = 1 /\ t.dims[2] = ExpectedChannels
PresentsChannelLast(t) == Len(t.dims) = 3 /\ t.dims[1] = 1 /\ t.dims[3] = ExpectedChannels
DecodedAsReference(a) ==
    decode.status = "ok" /\ MatchesReference(decode.parsed, a, NumClasses)

\* C21 as stated: whichever of the two layouts presents a list of logical
\* anchors, the decoder returns the candidates of the reference rule for that
\* list, for every N.
C21_LayoutIndependent ==
    Decoded =>
        LET t == decode.picked
        IN /\ PresentsChannelFirst(t) => DecodedAsReference(AnchorsIn(t, t.dims[3], TRUE))
           /\ PresentsChannelLast(t) => DecodedAsReference(AnchorsIn(t, t.dims[2], FALSE))

\* C21: anchors presented as [1, channels, N] are decoded by the reference
\* rule (kept iff w > 0, h > 0 and the maximum raw class score > 0, with the
\* class of that maximum and the raw score, in descending score order); the
\* same anchors presented as [1, N, channels] give the same candidates when
\* N differs from channels. With N = channels the dims are [1, N, N] in both
\* layouts and the data is read as [1, channels, N].
C21_LayoutIndependentUnlessSquare ==
    Decoded =>
        LET t == decode.picked
        IN /\ PresentsChannelFirst(t) => DecodedAsReference(AnchorsIn(t, t.dims[3], TRUE))
           /\ (PresentsChannelLast(t) /\ t.dims[2] # ExpectedChannels)
                 => DecodedAsReference(AnchorsIn(t, t.dims[2], FALSE))

\* Two anchors of two classes presented as [1, N, channels], both kept and
\* returned in the order opposite to the anchor order, the class-1 score first.
C21_Witness ==
    /\ Decoded
    /\ decode.status = "ok"
    /\ decode.picked.dims = <<1, 2, 6>>
    /\ Len(decode.parsed) = 2
    /\ decode.parsed[1].classId = 1 /\ decode.parsed[1].confidence = 700
    /\ decode.parsed[2].classId = 0 /\ decode.parsed[2].confidence = 600
    /\ decode.picked.data[5] = 600

----------------------------------------------------------------------------
(* The postcondition of suppression *)

ClassMax(c) ==
    CHOOSE v \in {nmsIn.boxes[i].confidence : i \in {j \in 1..Len(nmsIn.boxes) :
                                                      nmsIn.boxes[j].classId = c}} :
        \A i \in 1..Len(nmsIn.boxes) :
            nmsIn.boxes[i].classId = c => nmsIn.boxes[i].confidence <= v
\* The first candidate of class c, in input order, that has the highest score
\* of the class.
TopOfClass(c) ==
    nmsIn.boxes[CHOOSE i \in 1..Len(nmsIn.boxes) :
                    /\ nmsIn.boxes[i].classId = c
                    /\ nmsIn.boxes[i].confidence = ClassMax(c)
                    /\ \A j \in 1..(i - 1) :
                          ~(nmsIn.boxes[j].classId = c /\ nmsIn.boxes[j].confidence = ClassMax(c))]

\* C22: the output of applyNMS holds only candidates of its input, no more
\* often than the input does, in descending score order; no two kept
\* candidates of one class have IoU >= threshold; for every class the (first)
\* highest-scoring candidate is kept; and every removed candidate has a kept
\* candidate of its class with score >= its own and IoU >= threshold with it.
C22_GreedyPostcondition ==
    phase = "nms" =>
        /\ \A k \in 1..Len(nmsOut) : Count(nmsOut, nmsOut[k]) <= Count(nmsIn.boxes, nmsOut[k])
        /\ Descending(nmsOut)
        /\ \A i, j \in 1..Len(nmsOut) :
              (i # j /\ nmsOut[i].classId = nmsOut[j].classId)
                  => IouLt(calculateIoU(nmsOut[i], nmsOut[j]), nmsIn.threshold)
        /\ \A i \in 1..Len(nmsIn.boxes) :
              TopOfClass(nmsIn.boxes[i].classId) \in SeqToSet(nmsOut)
        /\ \A i \in 1..Len(nmsIn.boxes) :
              Suppressed(nmsIn.boxes[i]) =>
                  \E k \in 1..Len(nmsOut) :
                      /\ nmsOut[k].classId = nmsIn.boxes[i].classId
                      /\ nmsOut[k].confidence >= nmsIn.boxes[i].confidence
                      /\ IouGe(calculateIoU(nmsOut[k], nmsIn.boxes[i]), nmsIn.threshold)

\* Three candidates of one class handed over in ascending score order: the
\* last is kept first, the first is removed by it, and the middle one
\* overlaps the kept one below the threshold and stays.
C22_Witness ==
    /\ phase = "nms"
    /\ Len(nmsIn.boxes) = 3 /\ Len(nmsOut) = 2
    /\ \A i \in 1..3 : nmsIn.boxes[i].classId = nmsIn.boxes[1].classId
    /\ nmsIn.boxes[1].confidence < nmsIn.boxes[3].confidence
    /\ nmsOut[1] = nmsIn.boxes[3]
    /\ nmsOut[2] = nmsIn.boxes[2]
    /\ Suppressed(nmsIn.boxes[1])
    /\ calculateIoU(nmsOut[1], nmsOut[2])[1] > 0

----------------------------------------------------------------------------
(* Degenerate geometry *)

ZeroFrame == before.meta.width * before.meta.height = 0
\* The acceptance score with the container's coverage taken as 0: no coverage
\* bonus.
NeutralAcceptance ==
    LET base == IF Retyped THEN before.detections[ScreenshotAt].score
                ELSE OrElse(before.summary.confidence,
                            IF ScreenshotAt # 0 THEN before.detections[ScreenshotAt].score
                            ELSE Num(0))
        bar == Num(Cfg.tol.screenshotBarBonus)
        withTop == IF TopValid THEN NumAdd(base, bar) ELSE base
        withBot == IF BotValid THEN NumAdd(withTop, bar) ELSE withTop
    IN IF TopValid /\ BotValid
       THEN NumAdd(withBot, Num(Cfg.tol.screenshotBothBarsBonus)) ELSE withBot
ForcedFullFrame == HasNote({"primaryBox: forced to full frame for Screenshot"})

\* C23: an IoU whose union area is 0 is 0, and with a frame of zero area the
\* Screenshot stage decides as with coverage 0: where there is no alternative
\* to switch to, the Screenshot is kept without the coverage bonus and its
\* primary box is forced to the full frame.
C23_DegenerateNeutral ==
    Refined =>
        /\ \A i, j \in 1..Len(before.detections) :
              (area(before.detections[i].box) = 0 /\ area(before.detections[j].box) = 0)
                  => iou(before.detections[i].box, before.detections[j].box)[1] = 0
        /\ (ZeroFrame /\ AtScreenshotStage /\ AltAt = 0) =>
              /\ output.summary.confidence = Some(NeutralAcceptance)
              /\ ForcedFullFrame

----------------------------------------------------------------------------
(* Refinement of a refined result *)

Reapplied == phase = "reapplied"

\* C24: refineDocumentAnalysis applied with the same options to its own
\* output returns the summary (documentType, confidence, primaryBox,
\* isPartial) and the detection list of the first application.
C24_IdempotentOnOutput ==
    Reapplied =>
        /\ again.out.summary = output.summary
        /\ again.out.detections = output.detections

----------------------------------------------------------------------------
(* The rank of the selected candidate *)

AllThreeExist ==
    /\ hasLabel(before.detections, "Receipt")
    /\ hasLabel(before.detections, "Document")
    /\ hasLabel(before.detections, "Screenshot")
\* Position of the selected detection's label in the ranking.
PickedRankIn(ranked) == RankIn(ranked, before.detections[mainPick.at].label)

\* C25 as stated: with candidates of all three labels, the selected candidate
\* is the first or the second of the ranking by boosted score.
C25_NeverThirdRanked ==
    (Picked /\ AllThreeExist) =>
        LET ranked == Ranked IN PickedRankIn(ranked) \in {1, 2}

\* C25: with candidates of all three labels, the selected candidate is the
\* top-ranked one whenever no tie-break is applied; an applied tie-break
\* selects the Screenshot candidate when a bar is present, else the Document
\* candidate (no bar, aspect ratio at least 0.65), wherever it stands in the
\* ranking, so the selection is third-ranked only through the tie-break.
\* The tie-break is not applied when the two leaders are classMargin or more
\* apart both in stored and in boosted score, and it is applied when they
\* are less than classMargin apart in both and a bar is present or the
\* aspect ratio is at least 0.65.
C25_ThirdOnlyByTieBreak ==
    (Picked /\ AllThreeExist) =>
        LET ranked == Ranked
            lbl == before.detections[mainPick.at].label
            prefers == BarPresent \/ before.meta.aspectRatio >= 65
        IN /\ ~TieBroken => PickedRankIn(ranked) = 1
           /\ PickNoted(BarsNote) => BarPresent /\ lbl = "Screenshot"
           /\ PickNoted(A4Note) =>
                 ~BarPresent /\ before.meta.aspectRatio >= 65 /\ lbl = "Document"
           /\ PickedRankIn(ranked) = 3 => TieBroken
           /\ (~TieInRawScore(ranked) /\ ~TieInComparisonScore(ranked)) => ~TieBroken
           /\ (TieInRawScore(ranked) /\ TieInComparisonScore(ranked) /\ prefers) => TieBroken

\* Receipt and Screenshot lead within the margin, no bar is present and the
\* aspect ratio is 1: the Document candidate, ranked third, is selected.
C25_Witness ==
    /\ Picked /\ AllThreeExist
    /\ ~BarPresent
    /\ Ranked[3].lbl = "Document"
    /\ NumLt(RawScore(Ranked[3]), RawScore(Ranked[2]))
    /\ PickNoted(A4Note)
    /\ mainPick.type = DOCUMENT
    /\ mainPick.at = Ranked[3].at

----------------------------------------------------------------------------
(* Document and Receipt in one output *)

BothIn(dets) == hasLabel(dets, "Document") /\ hasLabel(dets, "Receipt")

\* C26: with allowRetype = true, no refinement output holds both a detection
\* labelled Document and a detection labelled Receipt, whether carried over
\* from the input, added by the Unknown fallback or synthesized for the
\* primary box.
C26_NoDocumentWithReceipt ==
    (Refined /\ options.allowRetype) => ~BothIn(output.detections)

\* An input holding Screenshot, Document and Receipt detections: the conflict
\* is resolved for Document, the Receipt detections are dropped and the
\* output is a Document.
C26_Witness ==
    /\ Refined /\ options.allowRetype
    /\ BothIn(before.detections)
    /\ hasLabel(before.detections, "Screenshot")
    /\ hasLabel(output.detections, "Document")
    /\ ~hasLabel(output.detections, "Receipt")
    /\ OutType = DOCUMENT

----------------------------------------------------------------------------
(* The returned type and the labels of the input *)

HasEvidence == \E i \in 1..Len(before.detections) : preferredHas(before.detections[i].label)

\* C27: with allowRetype = true and an input holding at least one detection
\* labelled Receipt, Document or Screenshot, the returned documentType is not
\* Unknown and is the type of a label that some input detection carries.
C27_EvidenceBackedType ==
    (Refined /\ options.allowRetype /\ HasEvidence) =>
        /\ OutType # UNKNOWN
        /\ hasLabel(before.detections, TypeName(OutType))

\* An input typed Receipt that holds no Receipt detection but a Screenshot,
\* a Document and a bar: the output is a Screenshot.
C27_Witness ==
    /\ Refined /\ options.allowRetype
    /\ before.summary.documentType = RECEIPT
    /\ ~hasLabel(before.detections, "Receipt")
    /\ hasLabel(before.detections, "Screenshot")
    /\ hasLabel(before.detections, "Document")
    /\ hasLabel(before.detections, TOP_BAR)
    /\ OutType = SCREENSHOT

----------------------------------------------------------------------------
(* The partial flag and the returned primary box *)

\* C28: in every output of a type other than Unknown that has a primaryBox,
\* on a frame of positive area, quality.isPartial is true exactly when
\* area(primaryBox) / (width * height) < minPrimaryAreaFrac, the primaryBox
\* being the returned one whichever stage wrote it.
C28_PartialMatchesFinalBox ==
    (Refined /\ OutType # UNKNOWN /\ OutBox # NoBox /\ ~ZeroFrame) =>
        (output.summary.isPartial
            <=> area(OutBox) * 1000 < Cfg.tol.minPrimaryAreaFrac
                                        * (before.meta.width * before.meta.height))

----------------------------------------------------------------------------
(* The forced full frame of a weak Screenshot *)

WeakScreenshotEvidence ==
    \/ ScreenshotAt = 0
    \/ area(Container) * 1000 < Cfg.tol.screenshotMinCoverFrac
                                   * (before.meta.width * before.meta.height)

\* C29: on a frame of positive area, an output of type Screenshot whose
\* input has no Screenshot detection, or whose best-scoring Screenshot
\* detection covers less than screenshotMinCoverFrac of the frame, has the
\* full frame {0, 0, width, height} as primaryBox.
C29_FullFrameForWeakScreenshot ==
    (Refined /\ OutType = SCREENSHOT /\ ~ZeroFrame /\ WeakScreenshotEvidence) =>
        OutBox = FrameBox

----------------------------------------------------------------------------
(* Initialisation under overlapping analyze calls *)

\* C30: whatever the interleaving of the analyze calls made on one analyzer
\* whose detector is not ready, InferenceSession.create is called at most
\* once, and every inference runs on a session that an initialize has stored
\* before.
C30_SingleInitialisation ==
    /\ analyzer.creates <= 1
    /\ \A i \in 1..Len(analyzer.inferences) : analyzer.inferences[i].session # 0

====
